---------------------------- MODULE Spec2Model ----------------------------
(***************************************************************************)
(* A model of bomcheck.py: the comparison of SolidWorks (design) bills of  *)
(* material with SyteLine (planning) bills of material.                    *)
(*                                                                         *)
(* Text is modelled as a sequence of one-character strings, so that glob   *)
(* matching, stripping, case conversion and substring search are computed  *)
(* character by character.  Quantities are fixed-point integers counting   *)
(* hundred-thousandths (1.0 is 100000), so that the tolerance 0.0051 and   *)
(* the length threshold 0.00001 are whole numbers; lengths as read from a  *)
(* design table are whole numbers of their unit; a conversion factor is a  *)
(* fraction [num, den].                                                    *)
(***************************************************************************)
EXTENDS Integers, Sequences, FiniteSets, TLC

VARIABLES
    pc,            \* position of the driver of the specification in use
    cfg,           \* global cfg: the settings dictionary
    printStrs,     \* global printStrs: the diagnostics, one record per message
    find,          \* is_in: argument find
    xcept,         \* is_in: argument xcept
    series,        \* is_in: argument series
    filtr,         \* is_in: returned series of booleans
    df,            \* convert_sw_bom_to_sl_format, deconstructMultilevelBOM: argument df
    dfconv,        \* convert_sw_bom_to_sl_format: tables returned so far
    dfsw,          \* check_a_sw_bom_to_a_sl_bom: argument dfsw
    dfsl,          \* check_a_sw_bom_to_a_sl_bom: argument dfsl
    dfmerged,      \* check_a_sw_bom_to_a_sl_bom: returned table
    swdic,         \* collect_checked_boms: argument swdic
    sldic,         \* collect_checked_boms: argument sldic
    lone_sw_dic,   \* collect_checked_boms: first returned dictionary
    combined_dic,  \* collect_checked_boms: second returned dictionary
    top,           \* deconstructMultilevelBOM: argument top
    dic_assys,     \* deconstructMultilevelBOM: how the call ended
    fn,            \* gatherBOMs_from_fnames: argument filename
    halted,        \* gatherBOMs_from_fnames: the call ended with SystemExit
    clipboard,     \* gatherBOMs_from_fnames: what read_clipboard finds
    um,            \* create_um_factors: arguments ser, from_um, to_um
    um_factors,    \* create_um_factors: returned series
    calls          \* bomcheck: the calls made so far in this process

vars == <<pc, cfg, printStrs, find, xcept, series, filtr, df, dfconv,
          dfsw, dfsl, dfmerged, swdic, sldic, lone_sw_dic, combined_dic,
          top, dic_assys, fn, halted, clipboard, um, um_factors, calls>>

---------------------------------------------------------------------------
(* Text                                                                    *)

\* The characters the model uses, in code point order.
Ascii == <<" ", "\"", "'", "*", "-", ".", "0", "1", "2", "3", "4", "5", "6",
           "7", "8", "9", "?", "A", "B", "C", "D", "E", "F", "G", "H", "I",
           "J", "K", "L", "M", "N", "O", "P", "Q", "R", "S", "T", "U", "V",
           "W", "X", "Y", "Z", "_", "a", "b", "c", "d", "e", "f", "g", "h",
           "i", "j", "k", "l", "m", "n", "o", "p", "q", "r", "s", "t", "u",
           "v", "w", "x", "y", "z">>

CharCode(c) == CHOOSE i \in 1..Len(Ascii) : Ascii[i] = c

\* str < str of Python: lexicographic by code point.
RECURSIVE StrLess(_, _)
StrLess(a, b) ==
    IF b = <<>> THEN FALSE
    ELSE IF a = <<>> THEN TRUE
    ELSE IF Head(a) # Head(b) THEN CharCode(Head(a)) < CharCode(Head(b))
    ELSE StrLess(Tail(a), Tail(b))

LowerCase == <<"a", "b", "c", "d", "e", "f", "g", "h", "i", "j", "k", "l", "m",
               "n", "o", "p", "q", "r", "s", "t", "u", "v", "w", "x", "y", "z">>
UpperCase == <<"A", "B", "C", "D", "E", "F", "G", "H", "I", "J", "K", "L", "M",
               "N", "O", "P", "Q", "R", "S", "T", "U", "V", "W", "X", "Y", "Z">>

UpperChar(c) ==
    IF \E i \in 1..Len(LowerCase) : LowerCase[i] = c
    THEN UpperCase[CHOOSE i \in 1..Len(LowerCase) : LowerCase[i] = c]
    ELSE c

\* str.upper
Upper(s) == [i \in 1..Len(s) |-> UpperChar(s[i])]

IsSpace(c) == c = " "

RECURSIVE LStrip(_)
LStrip(s) == IF s # <<>> /\ IsSpace(Head(s)) THEN LStrip(Tail(s)) ELSE s

RECURSIVE RStrip(_)
RStrip(s) ==
    IF s # <<>> /\ IsSpace(s[Len(s)]) THEN RStrip(SubSeq(s, 1, Len(s) - 1)) ELSE s

\* str.strip
Strip(s) == RStrip(LStrip(s))

\* str(True), str(False)
StrOfBool(b) == IF b THEN <<"T", "r", "u", "e">> ELSE <<"F", "a", "l", "s", "e">>

---------------------------------------------------------------------------
(* is_in                                                                   *)

\* A Python value that is a list of strings, a single string or a boolean.
PyList(l) == [t |-> "list", l |-> l, b |-> FALSE]
PyBool(b) == [t |-> "bool", l |-> <<>>, b |-> b]
PyStr(s)  == [t |-> "str", l |-> <<s>>, b |-> FALSE]

\* str(f) of one element of the find list
PatternsOf(v) == IF v.t = "bool" THEN <<StrOfBool(v.b)>> ELSE v.l

\* bool(v): an empty list, an empty string and False are falsy
Truthy(v) ==
    CASE v.t = "bool" -> v.b
      [] v.t = "str"  -> v.l[1] # <<>>
      [] OTHER        -> v.l # <<>>

\* re.search('^' + fnmatch.translate(pat) + '$', s): '*' is any run of
\* characters, '?' is any one character, every other character is itself,
\* and the whole of s has to be consumed.
RECURSIVE GlobMatch(_, _)
GlobMatch(pat, s) ==
    IF pat = <<>> THEN s = <<>>
    ELSE IF Head(pat) = "*"
         THEN \E k \in 0..Len(s) : GlobMatch(Tail(pat), SubSeq(s, k + 1, Len(s)))
    ELSE IF s = <<>> THEN FALSE
    ELSE (Head(pat) = "?" \/ Head(pat) = Head(s)) /\ GlobMatch(Tail(pat), Tail(s))

\* series.str.contains('|'.join(pats))
ContainsAny(pats, s) == \E i \in 1..Len(pats) : GlobMatch(pats[i], s)

find2_of(f) == IF f.t = "list" THEN f.l ELSE PatternsOf(f)

xcept2_of(x) ==
    IF x.t # "list" /\ Truthy(x) THEN PatternsOf(x)
    ELSE IF x.t = "list" THEN x.l
    ELSE <<>>

\* is_in_one with the exceptions left out of the filter
is_in_one_no_xcept(f, x, value) ==
    find2_of(f) # <<>> /\ ContainsAny(find2_of(f), Strip(value))

is_in_one(f, x, value) ==
    LET find2  == find2_of(f)
        xcept2 == xcept2_of(x)
        s      == Strip(value)
    IN  IF find2 # <<>> /\ xcept2 # <<>>
        THEN ContainsAny(find2, s) /\ ~ContainsAny(xcept2, s)
        ELSE IF find2 # <<>> THEN ContainsAny(find2, s)
        ELSE FALSE

is_in(f, x, ser) == [i \in 1..Len(ser) |-> is_in_one(f, x, ser[i])]

---------------------------------------------------------------------------
(* set_globals                                                             *)

DropDefault == <<"3", "*", "-", "0", "2", "5">>
DiscardLengthDefault == <<"3", "0", "8", "6", "-", "*">>
ExceptionExample == <<"3", "0", "8", "6", "-", "*", "-", "0", "2", "5">>
Inch == <<"i", "n", "c", "h">>
Feet == <<"f", "e", "e", "t">>
AccuracyDefault == 2

\* cfg as set_globals leaves it when bc_config.py sets the list named by
\* exceptions to exc and nothing else.
set_globals(exc) ==
    [accuracy       |-> AccuracyDefault,
     discard_length |-> PyList(<<DiscardLengthDefault>>),
     drop           |-> PyList(<<DropDefault>>),
     exceptions     |-> PyList(exc),
     from_um        |-> Inch,
     to_um          |-> Feet]

---------------------------------------------------------------------------
(* create_um_factors                                                       *)

LowerChar(c) ==
    IF \E i \in 1..Len(UpperCase) : UpperCase[i] = c
    THEN LowerCase[CHOOSE i \in 1..Len(UpperCase) : UpperCase[i] = c]
    ELSE c

\* str.lower
Lower(s) == [i \in 1..Len(s) |-> LowerChar(s[i])]

\* sub in s
Contains(sub, s) ==
    \E i \in 1..(Len(s) - Len(sub) + 1) : SubSeq(s, i, i + Len(sub) - 1) = sub

RECURSIVE GCD(_, _)
GCD(a, b) == IF b = 0 THEN a ELSE GCD(b, a % b)

Frac(n, d) == LET g == GCD(n, d) IN [num |-> n \div g, den |-> d \div g]
FracMul(x, y) == Frac(x.num * y.num, x.den * y.den)
FracInv(x) == [num |-> x.den, den |-> x.num]

\* 1/12, 1.0, 3.0, 1/(25.4*12), 10/(25.4*12), 1000/(25.4*12)
F_inch == Frac(1, 12)
F_foot == Frac(1, 1)
F_yard == Frac(3, 1)
F_mm == Frac(10, 3048)
F_cm == Frac(100, 3048)
F_m == Frac(10000, 3048)

\* chr(8221) and chr(8217), the curly inch and foot marks, are one
\* character each, written here by name.
\* The one-letter token m declared first
factorpool_m_first ==
    << [k |-> <<"m">>, v |-> F_m],
       [k |-> <<"i", "n">>, v |-> F_inch],
       [k |-> <<"f", "t">>, v |-> F_foot],
       [k |-> <<"m", "m">>, v |-> F_mm],
       [k |-> <<"\"">>, v |-> F_inch],
       [k |-> <<"'">>, v |-> F_foot],
       [k |-> <<"m", "i", "l", "l", "i">>, v |-> F_mm],
       [k |-> <<"rdquo">>, v |-> F_inch],
       [k |-> <<"rsquo">>, v |-> F_foot],
       [k |-> <<"c", "m">>, v |-> F_cm],
       [k |-> <<"y", "a", "r", "d">>, v |-> F_yard],
       [k |-> <<"f", "o", "o", "t">>, v |-> F_foot],
       [k |-> <<"c", "e", "n", "t", "i">>, v |-> F_cm],
       [k |-> <<"y", "d">>, v |-> F_yard],
       [k |-> <<"f", "e", "e", "t">>, v |-> F_foot] >>

factorpool ==
    << [k |-> <<"i", "n">>, v |-> F_inch],
       [k |-> <<"f", "t">>, v |-> F_foot],
       [k |-> <<"m", "m">>, v |-> F_mm],
       [k |-> <<"\"">>, v |-> F_inch],
       [k |-> <<"'">>, v |-> F_foot],
       [k |-> <<"m", "i", "l", "l", "i">>, v |-> F_mm],
       [k |-> <<"rdquo">>, v |-> F_inch],
       [k |-> <<"rsquo">>, v |-> F_foot],
       [k |-> <<"c", "m">>, v |-> F_cm],
       [k |-> <<"y", "a", "r", "d">>, v |-> F_yard],
       [k |-> <<"f", "o", "o", "t">>, v |-> F_foot],
       [k |-> <<"c", "e", "n", "t", "i">>, v |-> F_cm],
       [k |-> <<"y", "d">>, v |-> F_yard],
       [k |-> <<"f", "e", "e", "t">>, v |-> F_foot],
       [k |-> <<"m">>, v |-> F_m] >>

\* The for/else over factorpool: the index of the first token that is a
\* substring of text.lower(), 0 when the loop ends without a break.
FirstToken(text) ==
    LET hits == {i \in 1..Len(factorpool) : Contains(factorpool[i].k, Lower(text))}
    IN  IF hits = {} THEN 0 ELSE CHOOSE i \in hits : \A j \in hits : i <= j

\* The foot for a from_um without a token
from_um_factor_foot(from_um) ==
    IF FirstToken(from_um) = 0 THEN F_foot ELSE factorpool[FirstToken(from_um)].v

from_um_factor_of(from_um) ==
    IF FirstToken(from_um) = 0 THEN F_inch ELSE factorpool[FirstToken(from_um)].v

to_um_factor_of(to_um) ==
    IF FirstToken(to_um) = 0 THEN F_foot ELSE FracInv(factorpool[FirstToken(to_um)].v)

\* A cell of the length column: a number (isstr FALSE), or text made of
\* the digits of num followed by txt, such as 1200mm.
NumCell(n) == [isstr |-> FALSE, num |-> n, txt |-> <<>>]
StrCell(n, txt) == [isstr |-> TRUE, num |-> n, txt |-> txt]

\* A cell that is neither text nor a number (a date, say)
OtherCell == [isstr |-> FALSE, num |-> 0, txt |-> <<"?">>]

\* Lines 829-841: the factor of one length.
from_factor_of(length, from_um) ==
    IF length.isstr
    THEN IF FirstToken(length.txt) # 0 THEN factorpool[FirstToken(length.txt)].v
         ELSE from_um_factor_of(from_um)
    ELSE IF length.txt = <<>> THEN from_um_factor_of(from_um)
    ELSE Frac(0, 1)

\* The factor of the last text cell with a unit stays in use for the
\* lengths after it
RECURSIVE create_um_factors_sticky(_, _, _)
create_um_factors_sticky(ser, from_um, to_um) ==
    IF ser = <<>> THEN <<>>
    ELSE LET n == Len(ser)
             before == create_um_factors_sticky(SubSeq(ser, 1, n - 1), from_um, to_um)
         IN  Append(before,
                    IF n > 1 /\ ~ser[n].isstr /\ ser[n - 1].isstr
                    THEN before[n - 1]
                    ELSE FracMul(from_factor_of(ser[n], from_um), to_um_factor_of(to_um)))

create_um_factors(ser, from_um, to_um) ==
    [i \in 1..Len(ser) |->
        FracMul(from_factor_of(ser[i], from_um), to_um_factor_of(to_um))]

\* What create_um_factors appends to printStrs: no line of it does.
create_um_messages(from_um, to_um) == <<>>

---------------------------------------------------------------------------
(* convert_sw_bom_to_sl_format                                             *)

\* 'FT', 'EA', 'PICK' and str(10)
FT == <<"F", "T">>
EA == <<"E", "A">>

Rename_sw(c) ==
    CASE c \in {"PARTNUMBER", "PART NUMBER", "Part Number"} -> "Item"
      [] c \in {"L", "Length"} -> "LENGTH"
      [] c = "DESCRIPTION" -> "Description"
      [] c \in {"QTY", "QTY."} -> "Q"
      [] OTHER -> c

\* 0.00001 in hundred-thousandths
LengthEps == 1

RECURSIVE Pow10(_)
Pow10(n) == IF n <= 0 THEN 1 ELSE 10 * Pow10(n - 1)

\* round(q, accuracy) on a quantity in hundred-thousandths: to the nearest
\* multiple of 10^(5 - accuracy), a tie going to the even multiple.
Round(q, accuracy) ==
    LET m    == Pow10(5 - accuracy)
        r    == q % m
        down == q - r
    IN  IF 2 * r < m THEN down
        ELSE IF 2 * r > m THEN down + m
        ELSE IF (down \div m) % 2 = 0 THEN down ELSE down + m

\* lengths * qtys * factors * discard_length_filter of one row; the regular
\* expression that removes all but digits and dots from a text cell removes
\* a minus sign too.
ConvertedLength(row, factor, keep) ==
    LET l == IF row.LENGTH.isstr /\ row.LENGTH.num < 0
             THEN 0 - row.LENGTH.num ELSE row.LENGTH.num
    IN  IF keep THEN (l * row.Q * factor.num) \div factor.den ELSE 0

\* The length folded only when it is above 0.00001
FoldLength_above(c, rows) ==
    LET factors == create_um_factors([i \in 1..Len(rows) |-> rows[i].LENGTH],
                                     c.from_um, c.to_um)
        discard == is_in(c.discard_length, PyList(<<>>),
                         [i \in 1..Len(rows) |-> rows[i].Item])
    IN  [i \in 1..Len(rows) |->
            LET len    == ConvertedLength(rows[i], factors[i], ~discard[i])
                filtr2 == len > LengthEps
            IN  [rows[i] EXCEPT !.Q = (IF filtr2 THEN 0 ELSE rows[i].Q) + len,
                                !.U = IF filtr2 THEN FT ELSE EA] ]

\* The unit named after cfg['to_um'] when that is not feet
FoldLength_to_um_label(c, rows) ==
    LET factors == create_um_factors([i \in 1..Len(rows) |-> rows[i].LENGTH],
                                     c.from_um, c.to_um)
        discard == is_in(c.discard_length, PyList(<<>>),
                         [i \in 1..Len(rows) |-> rows[i].Item])
    IN  [i \in 1..Len(rows) |->
            LET len    == ConvertedLength(rows[i], factors[i], ~discard[i])
                filtr2 == len >= LengthEps
            IN  [rows[i] EXCEPT !.Q = (IF filtr2 THEN 0 ELSE rows[i].Q) + len,
                                !.U = IF ~filtr2 THEN EA
                                      ELSE IF c.to_um = Feet THEN FT ELSE Upper(c.to_um)] ]

\* Lines 950-960: the length folded into the quantity, and the unit.
FoldLength(c, rows) ==
    LET factors == create_um_factors([i \in 1..Len(rows) |-> rows[i].LENGTH],
                                     c.from_um, c.to_um)
        discard == is_in(c.discard_length, PyList(<<>>),
                         [i \in 1..Len(rows) |-> rows[i].Item])
    IN  [i \in 1..Len(rows) |->
            LET len    == ConvertedLength(rows[i], factors[i], ~discard[i])
                filtr2 == len >= LengthEps
            IN  [rows[i] EXCEPT !.Q = (IF filtr2 THEN 0 ELSE rows[i].Q) + len,
                                !.U = IF filtr2 THEN FT ELSE EA] ]

RECURSIVE SortStr(_)
SortStr(S) ==
    IF S = {} THEN <<>>
    ELSE LET m == CHOOSE x \in S : \A y \in S : y = x \/ StrLess(x, y)
         IN  <<m>> \o SortStr(S \ {m})

\* SumQ keeping the quantity of the first row of the item only
SumQ_first(rows, item) ==
    LET mine == {i \in 1..Len(rows) : rows[i].Item = item}
    IN  IF mine = {} THEN 0 ELSE rows[CHOOSE i \in mine : \A j \in mine : i <= j].Q

RECURSIVE SumQ(_, _)
SumQ(rows, item) ==
    IF rows = <<>> THEN 0
    ELSE (IF Head(rows).Item = item THEN Head(rows).Q ELSE 0) + SumQ(Tail(rows), item)

FirstRow(rows, item) ==
    rows[CHOOSE i \in 1..Len(rows) :
            rows[i].Item = item /\ \A j \in 1..(i - 1) : rows[j].Item # item]

\* Lines 962-965: one row for each item, in the order of the items.
GroupByItem(c, rows) ==
    LET items == SortStr({rows[i].Item : i \in 1..Len(rows)})
    IN  [k \in 1..Len(items) |->
            [Item        |-> items[k],
             Q           |-> Round(SumQ(rows, items[k]), c.accuracy),
             Description |-> FirstRow(rows, items[k]).Description,
             LENGTH      |-> NumCell(0),
             U           |-> FirstRow(rows, items[k]).U] ]

ItemSet(rows) == {rows[i].Item : i \in 1..Len(rows)}

RECURSIVE SelectRows(_, _)
SelectRows(rows, keep) ==
    IF rows = <<>> THEN <<>>
    ELSE (IF Head(keep) THEN <<Head(rows)>> ELSE <<>>)
         \o SelectRows(Tail(rows), Tail(keep))

\* Lines 967-969: cfg['drop']==True holds of the boolean True only.
DropRows(c, rows) ==
    IF c.drop.t = "bool" /\ c.drop.b
    THEN LET filtr3 == is_in(c.drop, c.exceptions, [i \in 1..Len(rows) |-> rows[i].Item])
         IN  SelectRows(rows, [i \in 1..Len(rows) |-> ~filtr3[i]])
    ELSE rows

SLCols == {"Op", "WC", "Item", "Q", "Description", "U"}

\* convert_sw_bom_to_sl_format without the else of line 960
convert_keeps_unit(c, d) ==
    LET cols1 == {Rename_sw(x) : x \in d.cols}
        rows1 == IF "LENGTH" \in cols1 THEN FoldLength(c, d.rows) ELSE d.rows
    IN  [cols |-> SLCols, rows |-> DropRows(c, GroupByItem(c, rows1))]

convert_sw_bom_to_sl_format(c, d) ==
    LET cols1 == {Rename_sw(x) : x \in d.cols}
        rows1 == IF "LENGTH" \in cols1
                 THEN FoldLength(c, d.rows)
                 ELSE [i \in 1..Len(d.rows) |-> [d.rows[i] EXCEPT !.U = EA]]
    IN  [cols |-> SLCols, rows |-> DropRows(c, GroupByItem(c, rows1))]

---------------------------------------------------------------------------
(* Bounds and input pools                                                  *)

MaxFind == 2      \* longest find list given to is_in
MaxXcept == 1     \* longest xcept list given to is_in
MaxSeries == 1    \* longest series given to is_in

\* All sequences over S of length at most n.
SeqsUpTo(S, n) == UNION {[1..k -> S] : k \in 0..n}

PatPool == {DropDefault, ExceptionExample, DiscardLengthDefault,
            <<"*", "-", "0", "2", "5">>, <<"3", "0", "-", "0", "2", "5">>}

NamedId == <<"3", "0", "8", "6", "-", "0", "2", "5", "-", "0", "2", "5">>

ValPool == {NamedId,
            <<"3", "0", "-", "0", "2", "5">>,
            <<" ", "3", "0", "-", "0", "2", "5", " ">>,
            <<"3", "0", "-", "0", "2", "5", "5">>,
            <<"A", "3", "0", "-", "0", "2", "5">>,
            <<"3", "0", "8", "6", "-", "1">>}

---------------------------------------------------------------------------
(* Values of the variables a specification does not use                    *)

NoTable == [cols |-> {}, rows |-> <<>>]

IdleIsIn == find = PyList(<<>>) /\ xcept = PyList(<<>>) /\ series = <<>> /\ filtr = <<>>
IdleConvert == df = NoTable /\ dfconv = <<>>
IdleCheck == dfsw = NoTable /\ dfsl = NoTable /\ dfmerged = NoTable
IdleCollect ==
    swdic = <<>> /\ sldic = <<>> /\ lone_sw_dic = <<>> /\ combined_dic = <<>>
NotCalled == [raised |-> FALSE, dic |-> <<>>, Level |-> <<>>, Level_pn |-> <<>>]
IdleDeconstruct == top = <<>> /\ dic_assys = NotCalled
NoRead == [kind |-> "raise", table |-> NoTable]
IdleGather == fn = <<>> /\ halted = FALSE /\ clipboard = NoRead
NoUm == [ser |-> <<>>, from_um |-> <<>>, to_um |-> <<>>]
IdleUm == um = NoUm /\ um_factors = <<>>
IdleSettings == calls = <<>>

---------------------------------------------------------------------------
(* Specification of is_in on its own                                       *)

InitIsIn ==
    /\ pc = "call"
    /\ cfg = set_globals(<<>>)
    /\ printStrs = <<>>
    /\ find \in {PyList(l) : l \in SeqsUpTo(PatPool, MaxFind)}
    /\ xcept \in {PyList(l) : l \in SeqsUpTo(PatPool, MaxXcept)}
    /\ series \in SeqsUpTo(ValPool, MaxSeries)
    /\ filtr = <<>>
    /\ IdleConvert /\ IdleCheck /\ IdleCollect
    /\ IdleDeconstruct /\ IdleGather /\ IdleUm
    /\ IdleSettings

IsInCall ==
    /\ pc = "call"
    /\ filtr' = is_in(find, xcept, series)
    /\ pc' = "done"
    /\ UNCHANGED <<cfg, printStrs, find, xcept, series, df, dfconv, dfsw, dfsl,
                   dfmerged, swdic, sldic, lone_sw_dic, combined_dic,
                   top, dic_assys, fn, halted, clipboard, um, um_factors, calls>>

NextIsIn == IsInCall

SpecIsIn == InitIsIn /\ [][NextIsIn]_vars

\* The claim's matching, computed by the positions of s a prefix of pat can
\* end at: a '*' may end anywhere from where it starts, any other character
\* has to be the next character of s.
RECURSIVE EndsOfPrefix(_, _, _)
EndsOfPrefix(pat, s, n) ==
    IF n = 0 THEN {0}
    ELSE LET before == EndsOfPrefix(pat, s, n - 1)
         IN  IF pat[n] = "*"
             THEN {k \in 0..Len(s) : \E j \in before : j <= k}
             ELSE {k \in 1..Len(s) : k - 1 \in before /\ s[k] = pat[n]}

FullyMatches(pat, s) == Len(s) \in EndsOfPrefix(pat, s, Len(pat))

Stripped(s) ==
    LET NonBlank == {i \in 1..Len(s) : s[i] # " "}
    IN  IF NonBlank = {} THEN <<>>
        ELSE SubSeq(s, CHOOSE i \in NonBlank : \A j \in NonBlank : i <= j,
                        CHOOSE i \in NonBlank : \A j \in NonBlank : j <= i)

\* C2: is_in gives True for a value iff the stripped value fully matches at
\* least one find pattern and no xcept pattern; the exception wins for id
\* 3086-025-025 with find 3*-025 and xcept 3086-*-025; an empty find list
\* gives False for every value.
C2_IsIn ==
    pc = "done" =>
        /\ Len(filtr) = Len(series)
        /\ \A i \in 1..Len(series) :
              /\ filtr[i] <=>
                    /\ \E j \in 1..Len(find.l) : FullyMatches(find.l[j], Stripped(series[i]))
                    /\ ~\E j \in 1..Len(xcept.l) : FullyMatches(xcept.l[j], Stripped(series[i]))
              /\ (/\ series[i] = NamedId
                  /\ find.l = <<DropDefault>>
                  /\ xcept.l = <<ExceptionExample>>) => ~filtr[i]
              /\ find.l = <<>> => ~filtr[i]

C2_Witness ==
    /\ pc = "done"
    /\ series = <<NamedId>>
    /\ find.l = <<DropDefault>>
    /\ xcept.l = <<ExceptionExample>>
    /\ filtr = <<FALSE>>

---------------------------------------------------------------------------
(* check_a_sw_bom_to_a_sl_bom                                              *)

\* A diagnostic appended to printStrs: its kind and the names it shows.
Msg(kind, names) == [kind |-> kind, names |-> names]

\* Lines 1018-1024: the part number and the description of a planning row
\* once the columns are dropped and renamed.
SlItem(cols, row) == IF "Material" \in cols THEN row.Material ELSE row.Item
SlDescription(cols, row) ==
    IF "Material Description" \in cols THEN row.MatDescription ELSE row.Description

Rename_sl(c) ==
    CASE c = "Material" -> "Item"
      [] c \in {"Quantity", "Qty", "Qty Per"} -> "Q"
      [] c = "Material Description" -> "Description"
      [] c \in {"U/M", "UM"} -> "U"
      [] c = "Obsolete Date" -> "Obsolete"
      [] OTHER -> c

\* Lines 1018-1028: the planning rows as renamed, the obsolete ones dropped.
SlRenamed(d) ==
    LET cols1 == {Rename_sl(c) : c \in d.cols}
        rows1 == [i \in 1..Len(d.rows) |->
                    [Item        |-> SlItem(d.cols, d.rows[i]),
                     Q           |-> d.rows[i].Q,
                     Description |-> SlDescription(d.cols, d.rows[i]),
                     U           |-> d.rows[i].U,
                     Obsolete    |-> d.rows[i].Obsolete]]
    IN  IF "Obsolete" \in cols1
        THEN SelectRows(rows1, [i \in 1..Len(rows1) |-> ~rows1[i].Obsolete])
        ELSE rows1

\* One message for each part number, however many rows have it
CaseMessages_distinct(rows) ==
    LET x_lst == SortStr({rows[i].Item : i \in {j \in 1..Len(rows) :
                              rows[j].Item # Upper(rows[j].Item)}})
    IN  IF x_lst = <<>> THEN <<>>
        ELSE <<Msg("lower case header", <<>>)>>
             \o [i \in 1..Len(x_lst) |-> Msg("lower case", <<x_lst[i], Upper(x_lst[i])>>)]

\* Lines 1033-1045: x_lst, the part numbers that upper() changes, and the
\* messages about them.
CaseMessages(rows) ==
    LET x_bool == [i \in 1..Len(rows) |-> rows[i].Item # Upper(rows[i].Item)]
        x_lst  == SelectRows([i \in 1..Len(rows) |-> rows[i].Item],
                             [i \in 1..Len(rows) |-> x_bool[i] /\ rows[i].Item # <<>>])
    IN  IF x_lst = <<>> THEN <<>>
        ELSE <<Msg("lower case header", <<>>)>>
             \o [i \in 1..Len(x_lst) |-> Msg("lower case", <<x_lst[i], Upper(x_lst[i])>>)]

\* The planning part numbers left as they are
SlUpper_asis(rows) == rows

\* Line 1034: the planning part numbers in upper case.
SlUpper(rows) == [i \in 1..Len(rows) |-> [rows[i] EXCEPT !.Item = Upper(rows[i].Item)]]

\* str.split(): the words between runs of blanks
RECURSIVE Split(_)
Split(s) ==
    LET t == LStrip(s)
    IN  IF t = <<>> THEN <<>>
        ELSE LET blanks == {i \in 1..Len(t) : IsSpace(t[i])}
                 n == IF blanks = {} THEN Len(t) + 1
                      ELSE CHOOSE i \in blanks : \A j \in blanks : i <= j
             IN  <<SubSeq(t, 1, n - 1)>> \o Split(SubSeq(t, n, Len(t)))

\* A cell of the merged table that may be null (NaN).
Null(v) == [null |-> TRUE, v |-> v]
Cell(v) == [null |-> FALSE, v |-> v]

\* astype('str').str.strip() of a unit cell: NaN becomes the text nan
StrOfCell(c) == IF c.null THEN <<"n", "a", "n">> ELSE Strip(c.v)

\* 0.0051 in hundred-thousandths
QtyTolerance == 510

Abs(x) == IF x < 0 THEN 0 - x ELSE x

chkmark == <<"-">>
err == <<"X">>

\* Lines 1049-1059: the four flags of one merged row before the blanking.
FlagI(r) == IF r.merge = "both" THEN chkmark ELSE err
\* FlagQ with <= for <
FlagQ_le(r) ==
    IF ~r.Q_sw.null /\ ~r.Q_sl.null /\ Abs(r.Q_sw.v - r.Q_sl.v) <= QtyTolerance
    THEN chkmark ELSE err

FlagQ(r) ==
    IF ~r.Q_sw.null /\ ~r.Q_sl.null /\ Abs(r.Q_sw.v - r.Q_sl.v) < QtyTolerance
    THEN chkmark ELSE err
FlagD(r) ==
    IF ~r.Description_sw.null /\ ~r.Description_sl.null
       /\ Split(r.Description_sw.v) = Split(r.Description_sl.v)
    THEN chkmark ELSE err
FlagU(r) == IF StrOfCell(r.U_sw) = StrOfCell(r.U_sl) THEN chkmark ELSE err

\* One row of pd.merge(..., how='outer', indicator=True): sw and sl are
\* sequences of at most one row each, not both empty; merge is the column
\* _merge.
Joined(item, sw, sl) ==
    [Item |-> item,
     merge |-> IF sl = <<>> THEN "left_only"
               ELSE IF sw = <<>> THEN "right_only" ELSE "both",
     Q_sw |-> IF sw = <<>> THEN Null(0) ELSE Cell(sw[1].Q),
     Q_sl |-> IF sl = <<>> THEN Null(0) ELSE Cell(sl[1].Q),
     Description_sw |-> IF sw = <<>> THEN Null(<<>>) ELSE Cell(sw[1].Description),
     Description_sl |-> IF sl = <<>> THEN Null(<<>>) ELSE Cell(sl[1].Description),
     U_sw |-> IF sw = <<>> THEN Null(<<>>) ELSE Cell(sw[1].U),
     U_sl |-> IF sl = <<>> THEN Null(<<>>) ELSE Cell(sl[1].U)]

RowsWith(rows, item) ==
    SelectRows(rows, [i \in 1..Len(rows) |-> rows[i].Item = item])

\* The rows of the outer join for one part number: each design row with
\* each planning row of that number, or the rows of the one side alone.
JoinItem(item, sw, sl) ==
    LET a == RowsWith(sw, item)
        b == RowsWith(sl, item)
    IN  IF b = <<>> THEN [i \in 1..Len(a) |-> Joined(item, <<a[i]>>, <<>>)]
        ELSE IF a = <<>> THEN [j \in 1..Len(b) |-> Joined(item, <<>>, <<b[j]>>)]
        ELSE [k \in 1..(Len(a) * Len(b)) |->
                Joined(item, <<a[((k - 1) \div Len(b)) + 1]>>,
                             <<b[((k - 1) % Len(b)) + 1]>>)]

RECURSIVE Flatten(_)
Flatten(ss) == IF ss = <<>> THEN <<>> ELSE Head(ss) \o Flatten(Tail(ss))

\* The join with how='left': the part numbers of the design table only
OuterMerge_left(sw, sl) ==
    LET items == SortStr(ItemSet(sw))
    IN  Flatten([k \in 1..Len(items) |-> JoinItem(items[k], sw, sl)])

\* Lines 1047-1048: the outer join on Item, sorted by Item.
OuterMerge(sw, sl) ==
    LET items == SortStr(ItemSet(sw) \cup ItemSet(sl))
    IN  Flatten([k \in 1..Len(items) |-> JoinItem(items[k], sw, sl)])

\* duplicated() with keep='first': the first row of a number is not marked
Duplicated_keep_first(rows, i) == \E j \in 1..(i - 1) : rows[j].Item = rows[i].Item

Duplicated(rows, i) == \E j \in 1..Len(rows) : j # i /\ rows[j].Item = rows[i].Item

\* Lines 1056-1067: the flags, blank in the rows of a duplicated part
\* number, and '' in every null cell.
Flagged(rows) ==
    [k \in 1..Len(rows) |->
        LET r == rows[k]
            blank == Duplicated(rows, k)
        IN  [Item |-> r.Item,
             i |-> IF blank THEN <<>> ELSE FlagI(r),
             q |-> IF blank THEN <<>> ELSE FlagQ(r),
             d |-> IF blank THEN <<>> ELSE FlagD(r),
             u |-> IF blank THEN <<>> ELSE FlagU(r),
             Q_sw |-> r.Q_sw,
             Q_sl |-> r.Q_sl,
             Description_sw |-> r.Description_sw.v,
             Description_sl |-> r.Description_sl.v,
             U_sw |-> r.U_sw.v,
             U_sl |-> r.U_sl.v]]

MergedCols == {"Item", "i", "q", "d", "u", "Q_sw", "Q_sl", "Description_sw",
               "Description_sl", "U_sw", "U_sl"}

\* The table check_a_sw_bom_to_a_sl_bom returns.
check_merged(sw, sl) ==
    [cols |-> MergedCols,
     rows |-> Flagged(OuterMerge(sw.rows, SlUpper(SlRenamed(sl))))]

\* The messages check_a_sw_bom_to_a_sl_bom appends to printStrs.
check_messages(sw, sl) == CaseMessages(SlRenamed(sl))

---------------------------------------------------------------------------
(* bomcheck: the settings                                                  *)

\* An entry of dic or kwargs: absent, or present with value v.
Absent(v) == [has |-> FALSE, v |-> v]
Given(v) == [has |-> TRUE, v |-> v]

NoDic ==
    [drop |-> Absent(FALSE), from_um |-> Absent(<<>>), to_um |-> Absent(<<>>),
     accuracy |-> Absent(0)]
NoKwargs ==
    [d |-> Absent(FALSE), from_um |-> Absent(<<>>), to_um |-> Absent(<<>>),
     a |-> Absent(0)]

\* cfg['drop'] left as it is when no drop flag is given
bomcheck_settings_keep_drop(c, dic, kwargs) ==
    [c EXCEPT
        !.from_um = IF dic.from_um.has /\ dic.from_um.v # <<>> THEN dic.from_um.v
                    ELSE IF kwargs.from_um.has THEN kwargs.from_um.v ELSE c.from_um,
        !.to_um = IF dic.to_um.has /\ dic.to_um.v # <<>> THEN dic.to_um.v
                  ELSE IF kwargs.to_um.has THEN kwargs.to_um.v ELSE c.to_um,
        !.accuracy = IF dic.accuracy.has /\ dic.accuracy.v # 0 THEN dic.accuracy.v
                     ELSE IF kwargs.a.has THEN kwargs.a.v ELSE c.accuracy,
        !.drop = IF dic.drop.has /\ dic.drop.v THEN PyBool(TRUE)
                 ELSE IF kwargs.d.has THEN PyBool(kwargs.d.v) ELSE c.drop]

\* Lines 291-298.  dic.get(k) counts when it is truthy.
bomcheck_settings(c, dic, kwargs) ==
    [c EXCEPT
        !.from_um = IF dic.from_um.has /\ dic.from_um.v # <<>> THEN dic.from_um.v
                    ELSE IF kwargs.from_um.has THEN kwargs.from_um.v ELSE c.from_um,
        !.to_um = IF dic.to_um.has /\ dic.to_um.v # <<>> THEN dic.to_um.v
                  ELSE IF kwargs.to_um.has THEN kwargs.to_um.v ELSE c.to_um,
        !.accuracy = IF dic.accuracy.has /\ dic.accuracy.v # 0 THEN dic.accuracy.v
                     ELSE IF kwargs.a.has THEN kwargs.a.v ELSE c.accuracy,
        !.drop = IF dic.drop.has /\ dic.drop.v THEN PyBool(TRUE)
                 ELSE IF kwargs.d.has THEN PyBool(kwargs.d.v) ELSE PyBool(FALSE)]

---------------------------------------------------------------------------
(* collect_checked_boms and bomcheck                                       *)

\* A Python dict: its items in insertion order, no key twice.
Keys(d) == {d[i].k : i \in 1..Len(d)}
Get(d, key) == d[CHOOSE i \in 1..Len(d) : d[i].k = key].v
Put(d, key, v) ==
    IF key \in Keys(d)
    THEN [i \in 1..Len(d) |-> IF d[i].k = key THEN [k |-> key, v |-> v] ELSE d[i]]
    ELSE Append(d, [k |-> key, v |-> v])

\* The key without the suffix
LoneKey_bare(key) == key

\* key + '_sw'
LoneKey(key) == key \o <<"_", "s", "w">>

\* lone_sw_dic with every design table, matched or not
lone_sw_dic_all(c, sw, sl, n) ==
    [i \in 1..n |-> [k |-> LoneKey(sw[i].k), v |-> convert_sw_bom_to_sl_format(c, sw[i].v)]]

\* lone_sw_dic after the first n items of swdic
RECURSIVE lone_sw_dic_of(_, _, _, _)
lone_sw_dic_of(c, sw, sl, n) ==
    IF n = 0 THEN <<>>
    ELSE IF sw[n].k \in Keys(sl) THEN lone_sw_dic_of(c, sw, sl, n - 1)
    ELSE Put(lone_sw_dic_of(c, sw, sl, n - 1), LoneKey(sw[n].k),
             convert_sw_bom_to_sl_format(c, sw[n].v))

\* combined_dic with the planning tables that have no design table as well
combined_dic_with_lone_sl(c, sw, sl, n) ==
    [i \in 1..Len(sl) |-> [k |-> sl[i].k, v |-> sl[i].v]]

\* combined_dic after the first n items of swdic
RECURSIVE combined_dic_of(_, _, _, _)
combined_dic_of(c, sw, sl, n) ==
    IF n = 0 THEN <<>>
    ELSE IF sw[n].k \in Keys(sl)
         THEN Put(combined_dic_of(c, sw, sl, n - 1), sw[n].k,
                  check_merged(convert_sw_bom_to_sl_format(c, sw[n].v), Get(sl, sw[n].k)))
    ELSE combined_dic_of(c, sw, sl, n - 1)

\* The messages the calls of check_a_sw_bom_to_a_sl_bom append, in the
\* order of swdic.
RECURSIVE collect_messages(_, _, _, _)
collect_messages(c, sw, sl, n) ==
    IF n = 0 THEN <<>>
    ELSE collect_messages(c, sw, sl, n - 1)
         \o (IF sw[n].k \in Keys(sl)
             THEN check_messages(convert_sw_bom_to_sl_format(c, sw[n].v), Get(sl, sw[n].k))
             ELSE <<>>)

\* Lines 312-315, 332-336 and 341-350 of bomcheck with x=True: what one
\* call appends to printStrs, lone and merged being what line 322 returned.
bomcheck_messages(c, sw, sl, lone, merged) ==
    (IF Truthy(c.drop) THEN <<Msg("drop", <<>>)>> ELSE <<>>)
    \o collect_messages(c, sw, sl, Len(sw))
    \o (IF lone # <<>>
        THEN <<Msg("no matching SyteLine BOMs", [i \in 1..Len(lone) |-> lone[i].k])>>
        ELSE <<>>)
    \o (IF lone = <<>> /\ merged = <<>>
        THEN <<Msg("no SolidWorks files", <<>>)>> ELSE <<>>)

Millimeter == <<"m", "m">>

\* The ways bomcheck is called: from a console with keyword arguments, or
\* from main with the dictionary built from the command line.
CallPool ==
    {[dic |-> NoDic,
      kwargs |-> [NoKwargs EXCEPT !.d = d, !.from_um = f, !.to_um = t, !.a = a]] :
        d \in {Absent(FALSE), Given(TRUE), Given(FALSE)},
        f \in {Absent(<<>>), Given(Millimeter)},
        t \in {Absent(<<>>), Given(Millimeter)},
        a \in {Absent(0), Given(0)}}
    \cup
    {[dic |-> [drop |-> Given(d), from_um |-> Given(Inch), to_um |-> Given(Feet),
               accuracy |-> Given(AccuracyDefault)],
      kwargs |-> NoKwargs] : d \in BOOLEAN}

ExcPool == {<<>>, <<ExceptionExample>>}

\* cfg when convert_sw_bom_to_sl_format runs: as some call of bomcheck set
\* it, or as set_globals left it when the function is used on its own.
CfgPool ==
    {bomcheck_settings(set_globals(e), call.dic, call.kwargs) :
        e \in ExcPool, call \in CallPool}
    \cup {set_globals(e) : e \in ExcPool}

---------------------------------------------------------------------------
(* Specification of convert_sw_bom_to_sl_format on its own                 *)

MaxRows == 2      \* most rows of a table
MaxApply == 2     \* most applications of convert_sw_bom_to_sl_format in a row

Item_drop == <<"3", "0", "-", "0", "2", "5">>
Item_plain == <<"A", "1">>
Item_true == <<"T", "r", "u", "e">>
Item_tiny == <<"B", "2">>
Desc_a == <<"P", "I", "P", "E", " ", "A">>
Desc_b == <<"P", "I", "P", "E", " ", " ", "A">>
Desc_c == <<"T", "E", "E">>

SwRow(item, q, d, len) ==
    [Item |-> item, Q |-> q, Description |-> d, LENGTH |-> len, U |-> <<>>]

\* Rows of a design table that has a length column.
SwRowPool ==
    {SwRow(Item_drop, 300000, Desc_a, NumCell(0)),
     SwRow(Item_drop, 400000, Desc_b, NumCell(0)),
     SwRow(Item_plain, 100000, Desc_a, NumCell(10)),
     SwRow(Item_plain, 200000, Desc_c, StrCell(120, Millimeter)),
     SwRow(Item_plain, 12500, Desc_c, NumCell(0)),
     SwRow(NamedId, 100000, Desc_a, NumCell(12)),
     SwRow(Item_true, 100000, Desc_a, NumCell(0)),
     SwRow(Item_tiny, 1, Desc_c, NumCell(12))}

SwTables ==
    {[cols |-> {"PART NUMBER", "QTY", "DESCRIPTION", "LENGTH"}, rows |-> r] :
        r \in SeqsUpTo(SwRowPool, MaxRows)}
    \cup
    {[cols |-> {"PARTNUMBER", "QTY.", "DESCRIPTION"}, rows |-> r] :
        r \in SeqsUpTo({x \in SwRowPool : x.LENGTH = NumCell(0)}, MaxRows)}

InitConvert ==
    /\ pc = "call"
    /\ cfg \in CfgPool
    /\ printStrs = <<>>
    /\ df \in SwTables
    /\ dfconv = <<>>
    /\ IdleIsIn /\ IdleCheck /\ IdleCollect
    /\ IdleDeconstruct /\ IdleGather /\ IdleUm
    /\ IdleSettings

\* One application: to df first, then to the table the last one returned.
ConvertCall ==
    /\ pc = "call"
    /\ Len(dfconv) < MaxApply
    /\ dfconv' = Append(dfconv,
                    convert_sw_bom_to_sl_format(cfg,
                        IF dfconv = <<>> THEN df ELSE dfconv[Len(dfconv)]))
    /\ UNCHANGED <<pc, cfg, printStrs, find, xcept, series, filtr, df, dfsw, dfsl,
                   dfmerged, swdic, sldic, lone_sw_dic, combined_dic,
                   top, dic_assys, fn, halted, clipboard, um, um_factors, calls>>

NextConvert == ConvertCall

SpecConvert == InitConvert /\ [][NextConvert]_vars

\* The claim's drop rule: the id matches a pattern of the drop list that
\* set_globals made and no pattern of the exceptions.
ClaimDropped(c, item) ==
    /\ FullyMatches(DropDefault, Stripped(item))
    /\ ~\E j \in 1..Len(c.exceptions.l) : FullyMatches(c.exceptions.l[j], Stripped(item))

\* C1: with drop enabled through bomcheck, convert_sw_bom_to_sl_format
\* removes exactly the rows whose item id matches a drop pattern (default
\* 3*-025) and no exception pattern; with drop disabled it removes no row.
C1_DropRemovesMatches ==
    Len(dfconv) >= 1 =>
        /\ cfg.drop = PyBool(TRUE) =>
              ItemSet(dfconv[1].rows) = {x \in ItemSet(df.rows) : ~ClaimDropped(cfg, x)}
        /\ cfg.drop = PyBool(FALSE) =>
              ItemSet(dfconv[1].rows) = ItemSet(df.rows)

SameButUnit(a, b) ==
    /\ Len(a.rows) = Len(b.rows)
    /\ \A i \in 1..Len(a.rows) :
          /\ a.rows[i].Item = b.rows[i].Item
          /\ a.rows[i].Q = b.rows[i].Q
          /\ a.rows[i].Description = b.rows[i].Description

\* C3 as stated: a second application of convert_sw_bom_to_sl_format
\* returns the table the first one returned, units included.
C3_Idempotent ==
    Len(dfconv) >= 2 => dfconv[2] = dfconv[1]

\* C3 as amended: the second application returns the same item ids,
\* quantities and descriptions in the same order, and the unit 'EA' in
\* every row, so that a row whose unit was 'FT' changes to 'EA'.
C3_IdempotentButUnit ==
    Len(dfconv) >= 2 =>
        /\ SameButUnit(dfconv[1], dfconv[2])
        /\ \A i \in 1..Len(dfconv[2].rows) : dfconv[2].rows[i].U = EA

C3_Witness ==
    /\ Len(dfconv) >= 2
    /\ \E i \in 1..Len(dfconv[1].rows) : dfconv[1].rows[i].U = FT
    /\ \E i \in 1..Len(dfconv[1].rows) : dfconv[1].rows[i].U = EA

\* The rows of df with the length folded in, as the grouping step sees them.
Folded ==
    IF "LENGTH" \in {Rename_sw(x) : x \in df.cols}
    THEN FoldLength(cfg, df.rows)
    ELSE [i \in 1..Len(df.rows) |-> [df.rows[i] EXCEPT !.U = EA]]

RECURSIVE SumOver(_, _)
SumOver(S, rows) ==
    IF S = {} THEN 0
    ELSE LET i == CHOOSE x \in S : TRUE IN rows[i].Q + SumOver(S \ {i}, rows)

RowsOf(rows, item) == {i \in 1..Len(rows) : rows[i].Item = item}
FirstOf(rows, item) == CHOOSE i \in RowsOf(rows, item) : \A j \in RowsOf(rows, item) : i <= j

OneRowPerItem(out) ==
    \A i, j \in 1..Len(out) : out[i].Item = out[j].Item => i = j

\* q rounded to a multiple of m, a tie going to the even multiple.
NearestMultiple(q, m) ==
    CHOOSE r \in {q - (q % m), q - (q % m) + m} :
        /\ 2 * (IF r > q THEN r - q ELSE q - r) <= m
        /\ 2 * (IF r > q THEN r - q ELSE q - r) = m => (r \div m) % 2 = 0

FromRows(out, F, exact) ==
    \A i \in 1..Len(out) :
        LET r    == out[i]
            mine == RowsOf(F, r.Item)
            sum  == SumOver(mine, F)
        IN  /\ mine # {}
            /\ r.Q = IF exact THEN sum ELSE NearestMultiple(sum, Pow10(5 - cfg.accuracy))
            /\ r.Description = F[FirstOf(F, r.Item)].Description
            /\ r.U = F[FirstOf(F, r.Item)].U

\* C4 as stated: one row for each item id, its quantity the sum of the
\* folded quantities of the input rows with that id, its description and
\* unit those of the first such row.
C4_MergedSum ==
    Len(dfconv) >= 1 =>
        /\ OneRowPerItem(dfconv[1].rows)
        /\ FromRows(dfconv[1].rows, Folded, TRUE)

\* C4 as amended: no item id is in two rows, every row's id is an id of the
\* input and, when the drop setting is not True, every id of the input has
\* its row; the quantity is the sum of the folded quantities of the input
\* rows with the id rounded to cfg['accuracy'] decimal places, the
\* description and the unit are those of the first input row with the id;
\* quantities 3 and 4 under one id give one row with quantity 7.
C4_MergedRoundedSum ==
    Len(dfconv) >= 1 =>
        /\ OneRowPerItem(dfconv[1].rows)
        /\ ItemSet(dfconv[1].rows) \subseteq ItemSet(df.rows)
        /\ cfg.drop # PyBool(TRUE) => ItemSet(df.rows) \subseteq ItemSet(dfconv[1].rows)
        /\ FromRows(dfconv[1].rows, Folded, FALSE)
        /\ (/\ Len(df.rows) = 2
            /\ df.rows[1].Item = df.rows[2].Item
            /\ df.rows[1].Q = 300000 /\ df.rows[2].Q = 400000
            /\ df.rows[1].LENGTH = NumCell(0) /\ df.rows[2].LENGTH = NumCell(0))
           => /\ Len(dfconv[1].rows) <= 1
              /\ \A i \in 1..Len(dfconv[1].rows) : dfconv[1].rows[i].Q = 700000

C4_Witness ==
    /\ Len(dfconv) >= 1
    /\ Len(df.rows) = 2
    /\ df.rows[1].Item = df.rows[2].Item
    /\ df.rows[1].Description # df.rows[2].Description
    /\ df.rows[1].Q = 300000 /\ df.rows[2].Q = 400000
    /\ Len(dfconv[1].rows) = 1
    /\ dfconv[1].rows[1].Q = 700000

---------------------------------------------------------------------------
(* Specification of check_a_sw_bom_to_a_sl_bom on its own                  *)

Item_lower == <<"a", "1">>
Item_sl_only == <<"C", "3">>

\* Design tables as convert_sw_bom_to_sl_format returns them.
CheckSwRowPool ==
    {SwRow(Item_plain, 1000000, Desc_a, NumCell(0)),
     SwRow(Item_plain, 100000, Desc_a, NumCell(12)),
     SwRow(Item_drop, 300000, Desc_c, NumCell(0)),
     SwRow(Item_lower, 100000, Desc_a, NumCell(0))}

NormalizedTables ==
    {convert_sw_bom_to_sl_format(set_globals(<<>>),
        [cols |-> {"PART NUMBER", "QTY", "DESCRIPTION", "LENGTH"}, rows |-> r]) :
        r \in SeqsUpTo(CheckSwRowPool, MaxRows)}

SlRow(item, q, d, u, obsolete) ==
    [Item |-> item, Material |-> <<>>, Q |-> q, Description |-> d,
     MatDescription |-> <<>>, U |-> u, Obsolete |-> obsolete]

SlRowPool ==
    {SlRow(Item_plain, 1000500, Desc_b, EA, FALSE),
     SlRow(Item_plain, 1000510, Desc_a, EA, FALSE),
     SlRow(Item_plain, 999490, Desc_c, FT, FALSE),
     SlRow(Item_plain, 999500, Desc_a, EA, FALSE),
     SlRow(Item_lower, 1000000, Desc_a, EA, FALSE),
     SlRow(Item_drop, 300000, Desc_c, EA, TRUE),
     SlRow(Item_drop, 300500, Desc_c, EA, FALSE),
     SlRow(Item_sl_only, 200000, Desc_c, EA, FALSE)}

\* The same row in a table whose part number is in the column Material and
\* whose description is in the column Material Description.
AsMaterial(r) ==
    [r EXCEPT !.Material = r.Item, !.Item = <<"J">>,
              !.MatDescription = r.Description, !.Description = <<"J">>]

SlTables ==
    {[cols |-> {"Item", "Qty", "Description", "UM", "Obsolete Date"}, rows |-> r] :
        r \in SeqsUpTo(SlRowPool, MaxRows)}
    \cup
    {[cols |-> {"Item", "Material", "Quantity", "Description",
                "Material Description", "U/M"},
      rows |-> [i \in 1..Len(r) |-> AsMaterial(r[i])]] :
        r \in SeqsUpTo({x \in SlRowPool : ~x.Obsolete}, MaxRows)}

InitCheck ==
    /\ pc = "call"
    /\ cfg = set_globals(<<>>)
    /\ printStrs = <<>>
    /\ dfsw \in NormalizedTables
    /\ dfsl \in SlTables
    /\ dfmerged = NoTable
    /\ IdleIsIn /\ IdleConvert /\ IdleCollect
    /\ IdleDeconstruct /\ IdleGather /\ IdleUm
    /\ IdleSettings

CheckCall ==
    /\ pc = "call"
    /\ dfmerged' = check_merged(dfsw, dfsl)
    /\ printStrs' = printStrs \o check_messages(dfsw, dfsl)
    /\ pc' = "done"
    /\ UNCHANGED <<cfg, find, xcept, series, filtr, df, dfconv, dfsw, dfsl,
                   swdic, sldic, lone_sw_dic, combined_dic,
                   top, dic_assys, fn, halted, clipboard, um, um_factors, calls>>

NextCheck == CheckCall

SpecCheck == InitCheck /\ [][NextCheck]_vars

\* The planning rows the join sees, by the words of the claims: the rows
\* that are not obsolete, their part numbers in upper case.
PlanItem(k) == Upper(IF "Material" \in dfsl.cols THEN dfsl.rows[k].Material
                     ELSE dfsl.rows[k].Item)
PlanRows ==
    {k \in 1..Len(dfsl.rows) :
        ~(dfsl.rows[k].Obsolete /\ "Obsolete Date" \in dfsl.cols)}
PlanRowsOf(item) == {k \in PlanRows : PlanItem(k) = item}
DesignRowsOf(item) == {k \in 1..Len(dfsw.rows) : dfsw.rows[k].Item = item}
MergedRowsOf(item) == {k \in 1..Len(dfmerged.rows) : dfmerged.rows[k].Item = item}

\* C5: for an item id that occurs once on each side the quantity flag is
\* '-' iff the design and the planning quantity differ by less than 0.0051
\* and 'X' otherwise; a difference of 0.0050 gives '-', of 0.0051 'X'.
C5_QuantityTolerance ==
    pc = "done" =>
        \A a \in 1..Len(dfsw.rows) : \A b \in PlanRows :
            (/\ PlanItem(b) = dfsw.rows[a].Item
             /\ DesignRowsOf(dfsw.rows[a].Item) = {a}
             /\ PlanRowsOf(dfsw.rows[a].Item) = {b})
            => \E k \in 1..Len(dfmerged.rows) :
                  LET diff == dfsw.rows[a].Q - dfsl.rows[b].Q
                      r    == dfmerged.rows[k]
                  IN  /\ MergedRowsOf(dfsw.rows[a].Item) = {k}
                      /\ r.q \in {<<"-">>, <<"X">>}
                      /\ r.q = <<"-">> <=> (diff < 510 /\ diff > 0 - 510)
                      /\ diff \in {500, 0 - 500} => r.q = <<"-">>
                      /\ diff \in {510, 0 - 510} => r.q = <<"X">>

C5_Witness ==
    /\ pc = "done"
    /\ \E k, m \in 1..Len(dfmerged.rows) :
          /\ dfmerged.rows[k].q = <<"X">>
          /\ dfmerged.rows[k].Q_sw = Cell(1000000)
          /\ dfmerged.rows[k].Q_sl = Cell(1000510)
          /\ dfmerged.rows[m].q = <<"-">>
          /\ dfmerged.rows[m].Q_sw = Cell(300000)
          /\ dfmerged.rows[m].Q_sl = Cell(300500)

Flags(r) == {r.i, r.q, r.d, r.u}

\* C6: the four flags of every row whose item id is in more than one row of
\* the joined result are the empty string; in a row whose id is in no other
\* row each flag is '-' or 'X'.
C6_DuplicatesBlank ==
    pc = "done" =>
        \A k \in 1..Len(dfmerged.rows) :
            IF Cardinality(MergedRowsOf(dfmerged.rows[k].Item)) > 1
            THEN Flags(dfmerged.rows[k]) = {<<>>}
            ELSE Flags(dfmerged.rows[k]) \subseteq {<<"-">>, <<"X">>}

C6_Witness ==
    /\ pc = "done"
    /\ \E k, m \in 1..Len(dfmerged.rows) :
          /\ k # m
          /\ dfmerged.rows[k].Item = dfmerged.rows[m].Item
          /\ dfmerged.rows[k].Q_sw = Cell(1000000)
          /\ dfmerged.rows[k].Q_sl = Cell(1000510)
          /\ dfmerged.rows[k].q = <<>>

\* C7: the output holds every item id of the normalized design table and of
\* the planning table (obsolete rows dropped, ids in upper case, as the
\* join sees it) and no other; in a row whose id is in no other row the
\* flag i is '-' iff the id is on both sides and 'X' iff it is on one.
C7_FullOuterJoin ==
    pc = "done" =>
        /\ {dfmerged.rows[k].Item : k \in 1..Len(dfmerged.rows)}
              = {dfsw.rows[a].Item : a \in 1..Len(dfsw.rows)}
                \cup {PlanItem(b) : b \in PlanRows}
        /\ \A k \in 1..Len(dfmerged.rows) :
              LET item == dfmerged.rows[k].Item
                  both == DesignRowsOf(item) # {} /\ PlanRowsOf(item) # {}
              IN  MergedRowsOf(item) = {k} =>
                      /\ dfmerged.rows[k].i = <<"-">> <=> both
                      /\ dfmerged.rows[k].i = <<"X">> <=> ~both

C7_Witness ==
    /\ pc = "done"
    /\ \E k, m, n \in 1..Len(dfmerged.rows) :
          /\ dfmerged.rows[k].i = <<"-">>
          /\ dfmerged.rows[m].i = <<"X">> /\ dfmerged.rows[m].Q_sw.null
          /\ dfmerged.rows[n].i = <<"X">> /\ dfmerged.rows[n].Q_sl.null

\* The part number of planning row k as the table has it
RawItem(k) ==
    IF "Material" \in dfsl.cols THEN dfsl.rows[k].Material ELSE dfsl.rows[k].Item

HasLower(id) == \E i \in 1..Len(id) : \E c \in 1..26 : id[i] = LowerCase[c]

\* dfsl with every part number written in upper case
UpperFromStart ==
    [dfsl EXCEPT !.rows =
        [k \in 1..Len(dfsl.rows) |->
            IF "Material" \in dfsl.cols
            THEN [dfsl.rows[k] EXCEPT !.Material = Upper(@)]
            ELSE [dfsl.rows[k] EXCEPT !.Item = Upper(@)]]]

CaseCorrections == {m \in 1..Len(printStrs) : printStrs[m].kind = "lower case"}

\* C27: one case-correction message is appended for each planning row
\* whose part number upper case changes, naming the number as it was and
\* as it is; a table whose numbers are all upper case gets no message at
\* all; and the returned table is the one the same planning table with its
\* numbers in upper case from the start gives.
C27_CaseCorrected ==
    pc = "done" =>
        /\ Cardinality(CaseCorrections)
              = Cardinality({k \in PlanRows : HasLower(RawItem(k))})
        /\ \A k \in PlanRows :
              HasLower(RawItem(k)) =>
                 \E m \in CaseCorrections :
                    printStrs[m].names = <<RawItem(k), PlanItem(k)>>
        /\ (\A k \in PlanRows : ~HasLower(RawItem(k))) => printStrs = <<>>
        /\ \A k \in 1..Len(dfmerged.rows) : ~dfmerged.rows[k].Q_sl.null =>
              ~HasLower(dfmerged.rows[k].Item)
        /\ dfmerged = check_merged(dfsw, UpperFromStart)

\* Two planning rows with the part number a1
C27_Witness ==
    /\ pc = "done"
    /\ Len(dfsl.rows) = 2
    /\ RawItem(1) = Item_lower /\ RawItem(2) = Item_lower
    /\ Cardinality(CaseCorrections) = 2
    /\ \E k \in 1..Len(dfmerged.rows) :
          dfmerged.rows[k].Item = Item_plain /\ ~dfmerged.rows[k].Q_sl.null

\* C28: a design part number with a lower-case letter is in the result as
\* it is, in one row that has no planning side and the flag i 'X', while
\* every planning part number is in upper case; a planning row of the same
\* number is in another row, whose flag i is 'X' too when its number occurs
\* once on the planning side and the design table has no row of it.
C28_DesignCaseKept ==
    pc = "done" =>
        \A a \in 1..Len(dfsw.rows) :
           HasLower(dfsw.rows[a].Item) =>
              /\ \E k \in 1..Len(dfmerged.rows) :
                    /\ MergedRowsOf(dfsw.rows[a].Item) = {k}
                    /\ dfmerged.rows[k].Q_sl.null
                    /\ ~dfmerged.rows[k].Q_sw.null
                    /\ dfmerged.rows[k].i = <<"X">>
              /\ \A b \in PlanRows :
                    PlanItem(b) = Upper(dfsw.rows[a].Item) =>
                       /\ MergedRowsOf(PlanItem(b)) # {}
                       /\ (PlanRowsOf(PlanItem(b)) = {b} /\ DesignRowsOf(PlanItem(b)) = {})
                             => \E k \in 1..Len(dfmerged.rows) :
                                   /\ MergedRowsOf(PlanItem(b)) = {k}
                                   /\ dfmerged.rows[k].Q_sw.null
                                   /\ dfmerged.rows[k].i = <<"X">>

\* The design table and the planning table have one row each, both with
\* the part number a1; the result has a row a1 and a row A1, both 'X'
C28_Witness ==
    /\ pc = "done"
    /\ Len(dfsw.rows) = 1 /\ dfsw.rows[1].Item = Item_lower
    /\ Len(dfsl.rows) = 1 /\ RawItem(1) = Item_lower
    /\ Len(dfmerged.rows) = 2
    /\ dfmerged.rows[1].Item = Item_plain /\ dfmerged.rows[1].i = <<"X">>
    /\ dfmerged.rows[2].Item = Item_lower /\ dfmerged.rows[2].i = <<"X">>

---------------------------------------------------------------------------
(* Specification of one run of bomcheck on the tables gathered from files  *)

MaxAssy == 2      \* most tables of each side

Assy_100200 == <<"1", "0", "0", "2", "0", "0">>
Assy_999999 == <<"9", "9", "9", "9", "9", "9">>
Assy_086677 == <<"0", "8", "6", "6", "7", "7">>
AssyPool == {Assy_100200, Assy_999999, Assy_086677}

DesignPool ==
    {[cols |-> {"PART NUMBER", "QTY", "DESCRIPTION", "LENGTH"},
      rows |-> <<SwRow(Item_plain, 100000, Desc_a, NumCell(12)),
                 SwRow(Item_drop, 300000, Desc_c, NumCell(0))>>]}

PlanningPool ==
    {[cols |-> {"Item", "Qty", "Description", "UM"},
      rows |-> <<SlRow(Item_lower, 100000, Desc_b, FT, FALSE)>>],
     [cols |-> {"Item", "Qty", "Description", "UM"},
      rows |-> <<SlRow(Item_drop, 300000, Desc_c, EA, FALSE),
                 SlRow(Item_sl_only, 200000, Desc_c, EA, FALSE)>>]}

\* The dictionaries gatherBOMs_from_fnames can return over a pool of tables.
Dicts(tables) ==
    {d \in SeqsUpTo([k : AssyPool, v : tables], MaxAssy) :
        \A i, j \in 1..Len(d) : d[i].k = d[j].k => i = j}

Init ==
    /\ pc = "start"
    /\ cfg \in {set_globals(e) : e \in ExcPool}
    /\ printStrs = <<>>
    /\ IdleIsIn /\ IdleConvert /\ IdleCheck /\ IdleCollect
    /\ IdleDeconstruct /\ IdleGather /\ IdleUm
    /\ IdleSettings

\* bomcheck(fn, dic, **kwargs), the files of fn read into sw and sl.
bomcheck(call, sw, sl) ==
    /\ pc = "start"
    /\ cfg' = bomcheck_settings(cfg, call.dic, call.kwargs)
    /\ swdic' = sw
    /\ sldic' = sl
    /\ lone_sw_dic' = lone_sw_dic_of(cfg', sw, sl, Len(sw))
    /\ combined_dic' = combined_dic_of(cfg', sw, sl, Len(sw))
    /\ printStrs' = printStrs \o bomcheck_messages(cfg', sw, sl, lone_sw_dic', combined_dic')
    /\ pc' = "done"
    /\ UNCHANGED <<find, xcept, series, filtr, df, dfconv, dfsw, dfsl, dfmerged,
                   top, dic_assys, fn, halted, clipboard, um, um_factors, calls>>

SwDicts == Dicts(DesignPool)
SlDicts == Dicts(PlanningPool)

\* bomcheck(fn), bomcheck(fn, d=True) and the command line with --drop
RunPool ==
    {[dic |-> NoDic, kwargs |-> NoKwargs],
     [dic |-> NoDic, kwargs |-> [NoKwargs EXCEPT !.d = Given(TRUE)]],
     [dic |-> [NoDic EXCEPT !.drop = Given(TRUE)], kwargs |-> NoKwargs]}

BomcheckCall ==
    /\ pc = "start"
    /\ \E call \in RunPool, sw \in SwDicts, sl \in SlDicts : bomcheck(call, sw, sl)

Next == BomcheckCall

Spec == Init /\ [][Next]_vars

IsPrefix(a, b) == Len(a) <= Len(b) /\ SubSeq(b, 1, Len(a)) = a

\* A design id is in the lone set when a key of the set is the id followed
\* by a suffix that starts with an underscore.
InLone(key) == \E i \in 1..Len(lone_sw_dic) : IsPrefix(key \o <<"_">>, lone_sw_dic[i].k)
InCombined(key) == \E i \in 1..Len(combined_dic) : combined_dic[i].k = key

\* C8: every design-side assembly id is in exactly one result set: in the
\* reconciled set under its own id iff a planning table with that id
\* exists, and otherwise in the lone set; the two sets hold nothing else.
C8_ExactlyOneSet ==
    pc = "done" =>
        /\ \A i \in 1..Len(swdic) :
              LET key == swdic[i].k
                  matched == \E j \in 1..Len(sldic) : sldic[j].k = key
              IN  /\ InCombined(key) <=> matched
                  /\ InLone(key) <=> ~matched
        /\ Len(lone_sw_dic) + Len(combined_dic) = Len(swdic)

C8_Witness ==
    /\ pc = "done"
    /\ Len(lone_sw_dic) = 1
    /\ Len(combined_dic) = 1
    /\ Len(sldic) = 2

Suffix_design == <<"_", "d", "e", "s", "i", "g", "n">>
Suffix_sw == <<"_", "s", "w">>

Unmatched == {swdic[i].k : i \in 1..Len(swdic)} \ {sldic[j].k : j \in 1..Len(sldic)}

\* C9 as stated: a design table with id X and no planning counterpart is in
\* the lone set under the key X_design.
C9_LoneKeyDesign ==
    pc = "done" =>
        \A key \in Unmatched :
            \E i \in 1..Len(lone_sw_dic) : lone_sw_dic[i].k = key \o Suffix_design

\* C9 as amended: a design table with id X and no planning counterpart is
\* in the lone set under the key X_sw (100200 is reported as 100200_sw).
C9_LoneKeySw ==
    pc = "done" =>
        /\ \A key \in Unmatched :
              \E i \in 1..Len(lone_sw_dic) : lone_sw_dic[i].k = key \o Suffix_sw
        /\ \A i \in 1..Len(lone_sw_dic) :
              \E key \in Unmatched : lone_sw_dic[i].k = key \o Suffix_sw

C9_Witness ==
    /\ pc = "done"
    /\ Assy_100200 \in Unmatched
    /\ \E i \in 1..Len(lone_sw_dic) :
          lone_sw_dic[i].k = <<"1", "0", "0", "2", "0", "0", "_", "s", "w">>

PlanningOnly == {sldic[j].k : j \in 1..Len(sldic)} \ {swdic[i].k : i \in 1..Len(swdic)}

Mentions(msg, key) == \E n \in 1..Len(msg.names) : Contains(key, msg.names[n])

---------------------------------------------------------------------------
(* deconstructMultilevelBOM                                                *)

TOPLEVEL == <<"T", "O", "P", "L", "E", "V", "E", "L">>
Repeat == <<"r", "e", "p", "e", "a", "t">>
PnMissing == <<"p", "n", " ", "m", "i", "s", "s", "i", "n", "g">>

\* Lines 717-718: the part number stripped, the empty one replaced.
CleanPn(pn) == IF Strip(pn) = <<>> THEN PnMissing ELSE Strip(pn)

\* Line 733: str.replace('.0', '') as a literal, left to right
RECURSIVE DropDotZero(_)
DropDotZero(t) ==
    IF Len(t) < 2 THEN t
    ELSE IF t[1] = "." /\ t[2] = "0" THEN DropDotZero(SubSeq(t, 3, Len(t)))
    ELSE <<t[1]>> \o DropDotZero(Tail(t))

\* Line 734: str.count('\.')
CountDots(t) == Cardinality({i \in 1..Len(t) : t[i] = "."})

\* The top as given, whatever the columns are
TopOf_given(d, t) == t

\* Lines 726-727: the top in use.
TopOf(d, t) == IF "Level" \in d.cols THEN TOPLEVEL ELSE t
\* The column Level before the column ITEM NO.
LevelOf_level_first(d, row) ==
    IF "Level" \in d.cols THEN row.Level
    ELSE IF "ITEM NO." \in d.cols THEN CountDots(DropDotZero(row.ItemNo))
    ELSE 0

\* Lines 731-736: the Level of a row.  Whether pandas takes '.0' as a
\* literal or as a pattern, the dots that are left are the same.
LevelOf(d, row) ==
    IF "ITEM NO." \in d.cols THEN CountDots(DropDotZero(row.ItemNo))
    ELSE IF "Level" \in d.cols THEN row.Level
    ELSE 0

\* The locals of the loop of lines 742-767 before the first row.  bound
\* tells whether poplist has been assigned; raised whether an exception
\* has ended the call.
WalkStart ==
    [raised |-> FALSE, bound |-> FALSE, poplist |-> <<>>, lvl |-> 0,
     p |-> Null(<<>>), level_pn |-> <<>>, assys |-> <<>>]

Raised(w) == [w EXCEPT !.raised = TRUE]

\* One item popped whatever i is
SliceOff_one(l, i) == SubSeq(l, 1, Len(l) - 1)

\* poplist[:i] for a negative i
SliceOff(l, i) == IF Len(l) + i <= 0 THEN <<>> ELSE SubSeq(l, 1, Len(l) + i)

\* A row goes under poplist[-1], which raises IndexError on an empty list.
Under(w, pl, pn, level) ==
    IF pl = <<>> THEN Raised(w)
    ELSE [w EXCEPT !.poplist = pl, !.level_pn = Append(@, pl[Len(pl)]),
                   !.p = Cell(pn), !.lvl = level]

\* The repeated subassembly goes under its own name once more
WalkStep_no_repeat(w, t, pn, level) ==
    IF w.raised THEN w
    ELSE IF level = 0
    THEN [w EXCEPT !.bound = TRUE, !.poplist = <<>>,
                   !.level_pn = Append(@, t),
                   !.assys = IF t # TOPLEVEL THEN Append(@, t) ELSE @,
                   !.p = Cell(pn), !.lvl = 0]
    ELSE IF level > w.lvl
    THEN IF ~w.bound THEN Raised(w)
         ELSE Under([w EXCEPT !.assys = Append(@, w.p.v)],
                    Append(w.poplist, w.p.v), pn, level)
    ELSE IF level = w.lvl THEN Under(w, w.poplist, pn, level)
    ELSE Under(w, SliceOff(w.poplist, level - w.lvl), pn, level)

\* The repeated subassembly is pushed by name without being registered
\* again
WalkStep_repeat_named(w, t, pn, level) ==
    IF w.raised THEN w
    ELSE IF level = 0
    THEN [w EXCEPT !.bound = TRUE, !.poplist = <<>>,
                   !.level_pn = Append(@, t),
                   !.assys = IF t # TOPLEVEL THEN Append(@, t) ELSE @,
                   !.p = Cell(pn), !.lvl = 0]
    ELSE IF level > w.lvl
    THEN IF ~w.bound THEN Raised(w)
         ELSE IF \E a \in 1..Len(w.assys) : w.assys[a] = w.p.v
         THEN Under(w, Append(w.poplist, w.p.v), pn, level)
         ELSE Under([w EXCEPT !.assys = Append(@, w.p.v)],
                    Append(w.poplist, w.p.v), pn, level)
    ELSE IF level = w.lvl THEN Under(w, w.poplist, pn, level)
    ELSE Under(w, SliceOff(w.poplist, level - w.lvl), pn, level)

\* Lines 746-767: one pass of the loop, for the row with part number pn at
\* the given level.  The first row at a level above 0 finds poplist
\* unassigned (UnboundLocalError).
WalkStep(w, t, pn, level) ==
    IF w.raised THEN w
    ELSE IF level = 0
    THEN [w EXCEPT !.bound = TRUE, !.poplist = <<>>,
                   !.level_pn = Append(@, t),
                   !.assys = IF t # TOPLEVEL THEN Append(@, t) ELSE @,
                   !.p = Cell(pn), !.lvl = 0]
    ELSE IF level > w.lvl
    THEN IF ~w.bound THEN Raised(w)
         ELSE IF \E a \in 1..Len(w.assys) : w.assys[a] = w.p.v
         THEN Under(w, Append(w.poplist, Repeat), pn, level)
         ELSE Under([w EXCEPT !.assys = Append(@, w.p.v)],
                    Append(w.poplist, w.p.v), pn, level)
    ELSE IF level = w.lvl THEN Under(w, w.poplist, pn, level)
    ELSE Under(w, SliceOff(w.poplist, level - w.lvl), pn, level)

\* Lines 742-767: the loop over the first n rows.
RECURSIVE Walk(_, _, _)
Walk(d, t, n) ==
    IF n = 0 THEN WalkStart
    ELSE CHOOSE after \in {WalkStep(w, TopOf(d, t), CleanPn(d.rows[n].pn),
                                    LevelOf(d, d.rows[n])) : w \in {Walk(d, t, n - 1)}} : TRUE

\* Line 768 and the selection of line 773: the rows whose Level_pn is k,
\* each with its index in df.
RowsUnder(d, w, k) ==
    LET marked == [i \in 1..Len(d.rows) |->
                     [idx |-> i, pn |-> CleanPn(d.rows[i].pn),
                      Level |-> LevelOf(d, d.rows[i]), Level_pn |-> w.level_pn[i]]]
    IN  SelectSeq(marked, LAMBDA r : r.Level_pn = k)

\* Lines 771-773: the dictionary after the first n entries of assys.
RECURSIVE DicOf(_, _, _)
DicOf(d, w, n) ==
    IF n = 0 THEN <<>>
    ELSE Put(DicOf(d, w, n - 1), Upper(w.assys[n]), RowsUnder(d, w, w.assys[n]))

\* Lines 732-736: the column Level that df has from then on.
LevelColumn(d) == [i \in 1..Len(d.rows) |-> LevelOf(d, d.rows[i])]

\* Lines 768-774 after the loop has left the locals w.  The columns Level
\* and Level_pn that the call gives df in place are kept with the outcome;
\* an exception in the loop leaves df without Level_pn.
Returned(d, w) ==
    IF w.raised
    THEN [raised |-> TRUE, dic |-> <<>>, Level |-> LevelColumn(d), Level_pn |-> <<>>]
    ELSE [raised |-> FALSE, dic |-> DicOf(d, w, Len(w.assys)),
          Level |-> LevelColumn(d), Level_pn |-> w.level_pn]

\* How a call ends: with an exception, or returning dic_assys.
deconstructMultilevelBOM(d, t) ==
    CHOOSE out \in {Returned(d, w) : w \in {Walk(d, t, Len(d.rows))}} : TRUE

---------------------------------------------------------------------------
(* Specification of deconstructMultilevelBOM on its own                    *)

MaxBomRows == 5   \* most rows of a table given to deconstructMultilevelBOM

Digits == <<"1", "2", "3", "4", "5", "6", "7", "8", "9">>
Pn_A1 == <<"A", "1">>
Pn_a1 == <<"a", "1">>
Top_T9 == <<"T", "9">>

\* The part numbers of row i: one no other row has, and two that any row
\* may have and that differ in case only.
PnPool(i) == <<<<"P", Digits[i]>>, Pn_A1, Pn_a1>>

LevelPool == {0, 1, 2, 3}

\* ITEM NO. of a row at the given depth: 1, 1.1, 1.1.1, ...
RECURSIVE ItemNoAt(_)
ItemNoAt(depth) == IF depth = 0 THEN <<"1">> ELSE ItemNoAt(depth - 1) \o <<".", "1">>

\* A table with column Level (a multilevel planning table), with column
\* ITEM NO. (a design table) or with neither (a single level table); row i
\* has the part number pick[i] of its pool at depth depths[i].
BomTable(kind, pick, depths) ==
    [cols |-> IF kind = "none" THEN {} ELSE {kind},
     rows |-> [i \in DOMAIN pick |->
                 [pn |-> PnPool(i)[pick[i]],
                  Level |-> IF kind = "Level" THEN depths[i] ELSE 0,
                  ItemNo |-> IF kind = "ITEM NO." THEN ItemNoAt(depths[i]) ELSE <<>>]]]

InitDeconstruct ==
    /\ pc = "call"
    /\ cfg = set_globals(<<>>)
    /\ printStrs = <<>>
    /\ \E n \in 0..MaxBomRows :
         \E pick \in [1..n -> 1..3] :
            \/ \E depths \in [1..n -> LevelPool] :
                 \E kind \in {"Level", "ITEM NO."} : df = BomTable(kind, pick, depths)
            \/ df = BomTable("none", pick, [i \in 1..n |-> 0])
    /\ dfconv = <<>>
    /\ top = Top_T9
    /\ dic_assys = NotCalled
    /\ IdleIsIn /\ IdleCheck /\ IdleCollect /\ IdleGather /\ IdleUm
    /\ IdleSettings

\* deconstructMultilevelBOM(df, source, top); no line of it touches
\* printStrs.
DeconstructCall ==
    /\ pc = "call"
    /\ dic_assys' = deconstructMultilevelBOM(df, top)
    /\ pc' = "done"
    /\ UNCHANGED <<cfg, printStrs, find, xcept, series, filtr, df, dfconv, dfsw,
                   dfsl, dfmerged, swdic, sldic, lone_sw_dic, combined_dic,
                   top, fn, halted, clipboard, um, um_factors, calls>>

NextDeconstruct == DeconstructCall

SpecDeconstruct == InitDeconstruct /\ [][NextDeconstruct]_vars

\* The depth of row i of df as the table states it: the Level, or one for
\* every ".1" that follows the first digit of ITEM NO.
ClaimDepth(i) ==
    IF "ITEM NO." \in df.cols THEN (Len(df.rows[i].ItemNo) - 1) \div 2
    ELSE IF "Level" \in df.cols THEN df.rows[i].Level
    ELSE 0

\* A table with column Level has its root in the row at depth 0; any other
\* table is the list of what is below the assembly named top.
HasRootRow == "Level" \in df.cols /\ "ITEM NO." \notin df.cols
RootId == IF HasRootRow THEN TOPLEVEL ELSE top

\* The depths a pre-order walk produces: the first is 0 and none is more
\* than one above the depth before it.
DepthsConsistent ==
    /\ Len(df.rows) >= 1
    /\ ClaimDepth(1) = 0
    /\ \A i \in 2..Len(df.rows) : ClaimDepth(i) <= ClaimDepth(i - 1) + 1

\* The row above row i in the tree, for a row below depth 0.
ParentRow(i) ==
    CHOOSE j \in 1..(i - 1) :
        /\ ClaimDepth(j) = ClaimDepth(i) - 1
        /\ \A k \in (j + 1)..(i - 1) : ClaimDepth(k) >= ClaimDepth(i)

IsParent(j) == \E i \in 1..Len(df.rows) : ClaimDepth(i) > 0 /\ ParentRow(i) = j

IsRootRow(i) == HasRootRow /\ ClaimDepth(i) = 0

\* The id of the assembly row i is a line of.
ParentId(i) == IF ClaimDepth(i) = 0 THEN RootId ELSE df.rows[ParentRow(i)].pn

\* df is the pre-order flattening of one tree in which no assembly id
\* occurs twice, ids compared as the keys are, in upper case.
IsTree ==
    /\ DepthsConsistent
    /\ HasRootRow => \A i \in 2..Len(df.rows) : ClaimDepth(i) >= 1
    /\ \A j, k \in 1..Len(df.rows) :
          IsParent(j) /\ IsParent(k) /\ j # k
              => Upper(df.rows[j].pn) # Upper(df.rows[k].pn)
    /\ \A j \in 1..Len(df.rows) :
          IsParent(j) /\ ~HasRootRow => Upper(df.rows[j].pn) # Upper(top)

\* The entries of the returned dictionary that hold row i of df.
TablesWith(i) ==
    {e \in 1..Len(dic_assys.dic) :
        \E r \in 1..Len(dic_assys.dic[e].v) : dic_assys.dic[e].v[r].idx = i}

TimesIn(e, i) ==
    Cardinality({r \in 1..Len(dic_assys.dic[e].v) : dic_assys.dic[e].v[r].idx = i})

\* C11: for the pre-order flattening of a tree whose assembly ids occur
\* once, the call returns, and every row but the root is in exactly one
\* returned table, once, and that table's key is the id of the row's parent
\* in the tree; the root row is in none.
C11_TreeRoundTrip ==
    (pc = "done" /\ IsTree) =>
        /\ ~dic_assys.raised
        /\ \A i \in 1..Len(df.rows) :
              IF IsRootRow(i) THEN TablesWith(i) = {}
              ELSE \E e \in 1..Len(dic_assys.dic) :
                      /\ TablesWith(i) = {e}
                      /\ TimesIn(e, i) = 1
                      /\ dic_assys.dic[e].k = Upper(ParentId(i))

\* A tree four deep whose last row is two levels above the row before it.
C11_Witness ==
    /\ pc = "done"
    /\ IsTree
    /\ Len(df.rows) = 5
    /\ [i \in 1..5 |-> ClaimDepth(i)] = <<0, 1, 2, 3, 1>>
    /\ Len(dic_assys.dic) = 3
    /\ \E i \in 1..5 : df.rows[i].pn = Pn_a1 /\ IsParent(i)

\* A parent row is the first assembly of its id when no parent row before
\* it has the same part number and the part number is not the top's.
FirstAssembly(j) ==
    /\ \A k \in 1..(j - 1) : IsParent(k) => df.rows[k].pn # df.rows[j].pn
    /\ ~HasRootRow => df.rows[j].pn # top

\* The parent id a row resolves to: the root's for depth 0, the parent
\* row's part number below the first assembly of an id, and the marker of
\* a repeated subassembly otherwise.
Resolved(i) ==
    IF ClaimDepth(i) = 0 THEN RootId
    ELSE IF FirstAssembly(ParentRow(i)) THEN df.rows[ParentRow(i)].pn
    ELSE Repeat

AssemblyIds == {Resolved(i) : i \in 1..Len(df.rows)} \ {TOPLEVEL, Repeat}

IdxIn(e) == {dic_assys.dic[e].v[r].idx : r \in 1..Len(dic_assys.dic[e].v)}

\* C12: for depths a pre-order walk produces, every returned table holds
\* exactly the rows that resolve to one parent id, of which the key is the
\* upper case; the rows of a table are lines of one parent; no row is in
\* two tables; the keys are the upper-cased parent ids; and a part number
\* that no row followed by a deeper row has is no key.
C12_OneParentPerTable ==
    (pc = "done" /\ DepthsConsistent) =>
        /\ ~dic_assys.raised
        /\ \A e \in 1..Len(dic_assys.dic) :
              /\ \E k \in AssemblyIds :
                    /\ Upper(k) = dic_assys.dic[e].k
                    /\ IdxIn(e) = {i \in 1..Len(df.rows) : Resolved(i) = k}
              /\ \A i, j \in IdxIn(e) :
                    /\ ClaimDepth(i) = ClaimDepth(j)
                    /\ ClaimDepth(i) > 0 => ParentRow(i) = ParentRow(j)
        /\ \A i \in 1..Len(df.rows) : Cardinality(TablesWith(i)) <= 1
        /\ Keys(dic_assys.dic) = {Upper(k) : k \in AssemblyIds}
        /\ \A i \in 1..Len(df.rows) :
              (/\ \A j \in 1..Len(df.rows) :
                     IsParent(j) => Upper(df.rows[j].pn) # Upper(df.rows[i].pn)
               /\ Upper(df.rows[i].pn) # Upper(RootId))
                  => Upper(df.rows[i].pn) \notin Keys(dic_assys.dic)

\* A design table in which the subassembly A1 occurs twice with a line
\* below it each time, and a part that is never a parent.
C12_Witness ==
    /\ pc = "done"
    /\ DepthsConsistent
    /\ "ITEM NO." \in df.cols
    /\ Len(df.rows) = 5
    /\ [i \in 1..5 |-> ClaimDepth(i)] = <<0, 1, 0, 1, 0>>
    /\ df.rows[1].pn = Pn_A1 /\ df.rows[3].pn = Pn_A1
    /\ Keys(dic_assys.dic) = {Top_T9, Pn_A1}

\* C13: the call raises for no sequence of depths, and depths that no
\* pre-order walk produces leave a message in printStrs.
C13_NeverRaisesAndReports ==
    pc = "done" =>
        /\ ~dic_assys.raised
        /\ ~DepthsConsistent /\ Len(df.rows) >= 1 => printStrs # <<>>

\* C21: for a table whose first row has depth 0 and whose depth rises by
\* at most 1 from a row to the next, every row at depth 0 gets the top as
\* Level_pn and every row at depth d >= 1 gets the part number of the
\* nearest row before it at depth d - 1, unless that part number was
\* registered as an assembly before that row.
C21_ParentByDepth ==
    (pc = "done" /\ DepthsConsistent) =>
        /\ ~dic_assys.raised
        /\ Len(dic_assys.Level_pn) = Len(df.rows)
        /\ \A i \in 1..Len(df.rows) :
              /\ ClaimDepth(i) = 0 => dic_assys.Level_pn[i] = RootId
              /\ (ClaimDepth(i) >= 1 /\ FirstAssembly(ParentRow(i)))
                    => dic_assys.Level_pn[i] = df.rows[ParentRow(i)].pn

\* A planning table with depths 0, 1, 2, 3, 1 and five part numbers
C21_Witness ==
    /\ pc = "done"
    /\ HasRootRow
    /\ Len(df.rows) = 5
    /\ [i \in 1..5 |-> ClaimDepth(i)] = <<0, 1, 2, 3, 1>>
    /\ \A i \in 1..5 : df.rows[i].pn = <<"P", Digits[i]>>
    /\ dic_assys.Level_pn =
          <<TOPLEVEL, <<"P", "1">>, <<"P", "2">>, <<"P", "3">>, <<"P", "1">>>>

\* A parent row whose part number an earlier parent row, or the top, has
RepeatedRef(j) == IsParent(j) /\ ~FirstAssembly(j)

\* The ids of the parent rows and of the top differ in more than case
NoCaseClash ==
    /\ \A j, k \in 1..Len(df.rows) :
          (IsParent(j) /\ IsParent(k) /\ Upper(df.rows[j].pn) = Upper(df.rows[k].pn))
              => df.rows[j].pn = df.rows[k].pn
    /\ \A j \in 1..Len(df.rows) :
          (IsParent(j) /\ Upper(df.rows[j].pn) = Upper(RootId)) => df.rows[j].pn = RootId

\* The rows below the first occurrence of the assembly id: those at depth
\* 0 for the top, else the lines of the first parent row with that id.
FirstChildren(id) ==
    IF id = RootId THEN {i \in 1..Len(df.rows) : ClaimDepth(i) = 0}
    ELSE LET first == CHOOSE j \in 1..Len(df.rows) :
                         /\ IsParent(j) /\ df.rows[j].pn = id
                         /\ \A k \in 1..(j - 1) : ~(IsParent(k) /\ df.rows[k].pn = id)
         IN  {i \in 1..Len(df.rows) : ClaimDepth(i) >= 1 /\ ParentRow(i) = first}

---------------------------------------------------------------------------
(* deconstructMultilevelBOM on tables with any item numbers, with or       *)
(* without the columns Level and ITEM NO.                                  *)

MaxLevelRows == 2   \* most rows of such a table

\* 1, 3.1, 3.1.2, 5.0, 10, 10.0, 2.05 and 1.0.1
ItemNoPool ==
    {<<"1">>, <<"3", ".", "1">>, <<"3", ".", "1", ".", "2">>, <<"5", ".", "0">>,
     <<"1", "0">>, <<"1", "0", ".", "0">>, <<"2", ".", "0", "5">>,
     <<"1", ".", "0", ".", "1">>}

LevelValues == {0, 1, 2}

InitLevels ==
    /\ pc = "call"
    /\ cfg = set_globals(<<>>)
    /\ printStrs = <<>>
    /\ \E n \in 0..MaxLevelRows :
         \E cols \in SUBSET {"Level", "ITEM NO."} :
            \E levels \in [1..n -> IF "Level" \in cols THEN LevelValues ELSE {0}] :
               \E nos \in [1..n -> IF "ITEM NO." \in cols THEN ItemNoPool ELSE {<<>>}] :
                  df = [cols |-> cols,
                        rows |-> [i \in 1..n |->
                                    [pn |-> <<"P", Digits[i]>>, Level |-> levels[i],
                                     ItemNo |-> nos[i]]]]
    /\ dfconv = <<>>
    /\ top = Top_T9
    /\ dic_assys = NotCalled
    /\ IdleIsIn /\ IdleCheck /\ IdleCollect /\ IdleGather /\ IdleUm
    /\ IdleSettings

NextLevels == DeconstructCall

SpecLevels == InitLevels /\ [][NextLevels]_vars

\* The dots of a text
DotsIn(t) == Cardinality({i \in 1..Len(t) : t[i] = "."})

\* The places of a text where ".0" stands
DotZeros(t) == {i \in 1..(Len(t) - 1) : t[i] = "." /\ t[i + 1] = "0"}

\* The text without a ".0" at its end
WithoutTrailingDotZero(t) ==
    IF Len(t) >= 2 /\ t[Len(t) - 1] = "." /\ t[Len(t)] = "0"
    THEN SubSeq(t, 1, Len(t) - 2)
    ELSE t

LevelsDone == pc = "done" /\ top = Top_T9 /\ Len(dic_assys.Level) = Len(df.rows)

\* C23 as stated: the depth of every row is the value of the column Level
\* when the table has one, is derived from ITEM NO. only when it has no
\* column Level, and is 0 when it has neither.
C23_LevelColumnFirst ==
    LevelsDone =>
        \A i \in 1..Len(df.rows) :
           dic_assys.Level[i] =
              IF "Level" \in df.cols THEN df.rows[i].Level
              ELSE IF "ITEM NO." \in df.cols
              THEN DotsIn(df.rows[i].ItemNo) - Cardinality(DotZeros(df.rows[i].ItemNo))
              ELSE 0

\* C23: the depth of every row is derived from ITEM NO. when the table has
\* that column, whether or not it has a column Level; it is the value of
\* the column Level only when there is no ITEM NO.; it is 0 when the table
\* has neither.
C23_ItemNoFirst ==
    LevelsDone =>
        \A i \in 1..Len(df.rows) :
           dic_assys.Level[i] =
              IF "ITEM NO." \in df.cols
              THEN DotsIn(df.rows[i].ItemNo) - Cardinality(DotZeros(df.rows[i].ItemNo))
              ELSE IF "Level" \in df.cols THEN df.rows[i].Level
              ELSE 0

\* A table with both columns: Level 0 beside ITEM NO. 3.1, and Level 2
\* beside ITEM NO. 1
C23_Witness ==
    /\ LevelsDone
    /\ df.cols = {"Level", "ITEM NO."}
    /\ Len(df.rows) = 2
    /\ df.rows[1].Level = 0 /\ df.rows[1].ItemNo = <<"3", ".", "1">>
    /\ df.rows[2].Level = 2 /\ df.rows[2].ItemNo = <<"1">>
    /\ dic_assys.Level = <<1, 0>>

\* C24: the depth derived from an item number is the number of dots left
\* after removing a '.0' at its end and nothing else: 2 for '3.1.2', 0 for
\* '5.0', 1 for '2.05'.
C24_TrailingDotZeroOnly ==
    (LevelsDone /\ "ITEM NO." \in df.cols) =>
        \A i \in 1..Len(df.rows) :
           dic_assys.Level[i] = DotsIn(WithoutTrailingDotZero(df.rows[i].ItemNo))

---------------------------------------------------------------------------
(* gatherBOMs_from_fnames and test_for_missing_columns                     *)

\* str.rfind(c) counted from 1; 0 when c is not in s
RFind(s, c) ==
    LET hits == {i \in 1..Len(s) : s[i] = c}
    IN  IF hits = {} THEN 0 ELSE CHOOSE i \in hits : \A j \in hits : j <= i

\* Line 502: f[i:i+4].lower() for i = f.rfind('_'); without a '_' the
\* slice f[-1:3] has one character at most and equals neither marker.
Marker(f) ==
    LET i == RFind(f, "_")
    IN  IF i = 0 THEN <<>>
        ELSE Lower(SubSeq(f, i, IF i + 3 <= Len(f) THEN i + 3 ELSE Len(f)))

Marker_sw == <<"_", "s", "w", ".">>
Marker_sl == <<"_", "s", "l", ".">>

\* os.path.split(f)[1]
Basename(f) == SubSeq(f, RFind(f, "/") + 1, Len(f))

\* Lines 504-505: fname[:k] for k = fname.rfind('_')
Fntrunc(f) ==
    LET fname == Basename(f)
        k == RFind(fname, "_")
    IN  IF k = 0 THEN SubSeq(fname, 1, Len(fname) - 1) ELSE SubSeq(fname, 1, k - 1)

\* os.path.splitext(v)[1].lower()
Extension(v) ==
    LET fname == Basename(v)
        k == RFind(fname, ".")
    IN  IF k <= 1 THEN <<>> ELSE Lower(SubSeq(fname, k, Len(fname)))

Ext_csv == <<".", "c", "s", "v">>
Ext_txt == <<".", "t", "x", "t">>
Ext_xlsx == <<".", "x", "l", "s", "x">>
Ext_xls == <<".", "x", "l", "s">>

\* Lines 500-511: swfilesdic (side "sw") and slfilesdic (side "sl") after
\* the first n names; the value is the position of the file in filename.
RECURSIVE FilesDic(_, _, _)
FilesDic(files, side, n) ==
    IF n = 0 THEN <<>>
    ELSE LET f == files[n].name
             wanted == IF side = "sw" THEN Marker_sw ELSE Marker_sl
         IN  IF Marker(f) = wanted /\ Basename(f)[1] # "~"
             THEN Put(FilesDic(files, side, n - 1), Fntrunc(f), n)
             ELSE FilesDic(files, side, n - 1)

\* DESCRIPTION not required of a design table
Required_no_description(bomtype) ==
    IF bomtype = "sw"
    THEN << <<"QTY", "QTY.">>, <<"PART NUMBER", "PARTNUMBER", "Part Number">> >>
    ELSE << <<"Qty", "Quantity", "Qty Per">>, <<"Material Description", "Description">>,
            <<"U/M", "UM">>, <<"Item", "Material">> >>

\* Lines 602-607
Required(bomtype) ==
    IF bomtype = "sw"
    THEN << <<"QTY", "QTY.">>, <<"DESCRIPTION">>,
            <<"PART NUMBER", "PARTNUMBER", "Part Number">> >>
    ELSE << <<"Qty", "Quantity", "Qty Per">>, <<"Material Description", "Description">>,
            <<"U/M", "UM">>, <<"Item", "Material">> >>

\* Lines 608-613 with test_alternative_column_names: the requirements of
\* which the table has no name.
Missing(bomtype, cols) ==
    SelectSeq(Required(bomtype), LAMBDA r : \A i \in 1..Len(r) : r[i] \notin cols)

\* Lines 614-628: the message of test_for_missing_columns
ColumnsMsg(bomtype, missing, pn) ==
    [kind |-> "essential columns missing", names |-> <<pn>>, missing |-> missing]

\* df after deconstructMultilevelBOM has worked on it in place: lines
\* 717-718, 732-736 and, when the loop ended, 768.
Worked(d, ended) ==
    [d EXCEPT !.cols = @ \cup {"Level"} \cup (IF ended THEN {"Level_pn"} ELSE {}),
              !.rows = [i \in 1..Len(d.rows) |->
                          [d.rows[i] EXCEPT !.pn = CleanPn(d.rows[i].pn),
                                            !.Level = LevelOf(d, d.rows[i])]]]

\* dict.update with the tables deconstructMultilevelBOM returned; src is
\* the file the rows were read from (kept by the model, not by the code).
RECURSIVE Updated(_, _, _, _)
Updated(dic, new, src, n) ==
    IF n = 0 THEN dic
    ELSE Put(Updated(dic, new, src, n - 1), new[n].k, [rows |-> new[n].v, src |-> src])

ErrorProcessing(v) == Msg("error processing file", <<v>>)
UnicodeMsg(v) == Msg("not unicode text", <<v>>)

\* Lines 532-533, 558-559: the test for columns and the decomposition of
\* the table the local df holds, which may be the table of an earlier pass
\* of the loop; an unassigned df raises UnboundLocalError.  exc tells that
\* an exception leaves the try block.
Decomposed(g, bomtype, k) ==
    IF g.df.null THEN [g EXCEPT !.exc = TRUE]
    ELSE IF Missing(bomtype, g.df.v.cols) # <<>>
    THEN [g EXCEPT !.msgs = Append(@, ColumnsMsg(bomtype, Missing(bomtype, g.df.v.cols), k))]
    ELSE LET out == deconstructMultilevelBOM(g.df.v, k)
         IN  IF out.raised
             THEN [g EXCEPT !.df = Cell(Worked(g.df.v, FALSE)), !.exc = TRUE]
             ELSE IF bomtype = "sw"
             THEN [g EXCEPT !.df = Cell(Worked(g.df.v, TRUE)),
                            !.sw = Updated(@, out.dic, g.df.v.src, Len(out.dic))]
             ELSE [g EXCEPT !.df = Cell(Worked(g.df.v, TRUE)),
                            !.sl = Updated(@, out.dic, g.df.v.src, Len(out.dic))]

\* The file as read: its table with the name of the file
ReadAs(file) == Cell([cols |-> file.read.table.cols, rows |-> file.read.table.rows,
                      src |-> file.name])

\* Lines 515-531: reading a design file into df.
ReadSw(g, file) ==
    LET ext == Extension(file.name)
    IN  IF ext = Ext_csv \/ ext = Ext_txt
        THEN IF file.read.kind = "table" THEN [g EXCEPT !.df = ReadAs(file)]
             ELSE [g EXCEPT !.exc = TRUE]
        ELSE IF ext = Ext_xlsx \/ ext = Ext_xls
        THEN IF file.read.kind = "table" THEN [g EXCEPT !.df = ReadAs(file)]
             ELSE IF file.read.kind = "columns" THEN [g EXCEPT !.df = ReadAs(file), !.exc = TRUE]
             ELSE [g EXCEPT !.exc = TRUE]
        ELSE g

\* Lines 541-557: reading a planning file into df.  The comparison of the
\* method file_extension.lower with '.xls' in line 556 is never true.
ReadSl(g, file) ==
    LET ext == Extension(file.name)
    IN  IF ext = Ext_csv \/ ext = Ext_txt
        THEN IF file.read.kind = "table" THEN [g EXCEPT !.df = ReadAs(file)]
             ELSE IF file.read.kind = "unicode"
             THEN [g EXCEPT !.msgs = Append(@, UnicodeMsg(file.name)),
                            !.exc = TRUE, !.exit = TRUE]
             ELSE [g EXCEPT !.exc = TRUE]
        ELSE IF ext = Ext_xlsx
        THEN IF file.read.kind = "table" THEN [g EXCEPT !.df = ReadAs(file)]
             ELSE [g EXCEPT !.exc = TRUE]
        ELSE g

\* The exception taken without a word
Excepted_silent(g, v) == [g EXCEPT !.exc = FALSE, !.exit = FALSE]

\* The bare except of lines 534-537 and 560-563 takes every exception,
\* SystemExit among them.
Excepted(g, v) ==
    IF g.exc THEN [g EXCEPT !.exc = FALSE, !.exit = FALSE,
                            !.msgs = Append(@, ErrorProcessing(v))]
    ELSE g

\* One pass of the loop of lines 513-537 (bomtype "sw") or 539-563 ("sl").
Pass(g, bomtype, k, file) ==
    LET read == IF bomtype = "sw" THEN ReadSw(g, file) ELSE ReadSl(g, file)
    IN  IF read.exc THEN Excepted(read, file.name)
        ELSE Excepted(Decomposed(read, bomtype, k), file.name)

GatherStart ==
    [df |-> Null(NoTable), sw |-> <<>>, sl |-> <<>>, msgs |-> <<>>,
     exc |-> FALSE, exit |-> FALSE]

\* The loop over the first n items of a filesdic, from the locals g.
RECURSIVE Passes(_, _, _, _, _)
Passes(g, bomtype, files, fdic, n) ==
    IF n = 0 THEN g
    ELSE CHOOSE after \in {Pass(before, bomtype, fdic[n].k, files[fdic[n].v]) :
                              before \in {Passes(g, bomtype, files, fdic, n - 1)}} : TRUE

\* Lines 564-569: the clipboard; no exception leaves the try block and
\* test_for_missing_columns is told not to report.
Clipboard(g, clip) ==
    IF clip.kind # "table" THEN g
    ELSE LET d == [cols |-> clip.table.cols, rows |-> clip.table.rows,
                   src |-> <<"c", "l", "i", "p", "b", "o", "a", "r", "d">>]
             out == deconstructMultilevelBOM(d, TOPLEVEL)
         IN  IF Missing("sl", d.cols) # <<>> \/ out.raised THEN g
             ELSE [g EXCEPT !.sl = Updated(@, out.dic, d.src, Len(out.dic))]

\* The locals when gatherBOMs_from_fnames(filename) returns.
gatherBOMs_from_fnames(files, clip) ==
    LET swfilesdic == FilesDic(files, "sw", Len(files))
        slfilesdic == FilesDic(files, "sl", Len(files))
    IN  CHOOSE out \in
          {Clipboard(g2, clip) :
              g2 \in {Passes(g1, "sl", files, slfilesdic, Len(slfilesdic)) :
                        g1 \in {Passes(GatherStart, "sw", files, swfilesdic,
                                       Len(swfilesdic))}}} : TRUE

---------------------------------------------------------------------------
(* Specification of gatherBOMs_from_fnames on its own                      *)

MaxFiles == 3     \* most names in filename

BomCols_sw == {"PART NUMBER", "QTY", "DESCRIPTION"}
BomCols_sl == {"Item", "Qty", "Description", "UM"}

WithCols(cols, d) == [cols |-> cols \cup d.cols, rows |-> d.rows]

\* A one-line design table, a design table with a subassembly, one without
\* DESCRIPTION, and one whose first ITEM NO. is 1.1.
SwSingle == WithCols(BomCols_sw, BomTable("none", <<1>>, <<0>>))
SwMulti == WithCols(BomCols_sw, BomTable("ITEM NO.", <<2, 1>>, <<0, 1>>))
SwNoDescription == WithCols({"PART NUMBER", "QTY"}, BomTable("none", <<1>>, <<0>>))
SwBadDepth == WithCols(BomCols_sw, BomTable("ITEM NO.", <<1>>, <<1>>))

\* A one-line planning table, a multilevel one, and one without a unit.
SlSingle == WithCols(BomCols_sl, BomTable("none", <<1>>, <<0>>))
SlMulti == WithCols(BomCols_sl, BomTable("Level", <<2, 1>>, <<0, 1>>))
SlNoUnit == WithCols({"Item", "Qty", "Description"}, BomTable("none", <<1>>, <<0>>))

\* What reading a file does: it gives a table; it raises; it raises after
\* df was assigned (a column label that is no string, line 530); it raises
\* UnicodeError.
Gives(t) == [kind |-> "table", table |-> t]
Raises == [kind |-> "raise", table |-> NoTable]
RaisesAfter(t) == [kind |-> "columns", table |-> t]
RaisesUnicode == [kind |-> "unicode", table |-> NoTable]

File(name, read) == [name |-> name, read |-> read]

Name_A_sw_xlsx == <<"A", "_", "s", "w", ".", "x", "l", "s", "x">>
Name_B_sw_csv == <<"B", "_", "s", "w", ".", "c", "s", "v">>
Name_B_sw_pdf == <<"B", "_", "s", "w", ".", "p", "d", "f">>
Name_C_sw_txt == <<"C", "_", "s", "w", ".", "t", "x", "t">>
Name_A_sl_xlsx == <<"A", "_", "s", "l", ".", "x", "l", "s", "x">>
Name_B_sl_csv == <<"B", "_", "s", "l", ".", "c", "s", "v">>
Name_C_sl_xls == <<"C", "_", "s", "l", ".", "x", "l", "s">>
Name_notes == <<"n", "o", "t", "e", "s", ".", "t", "x", "t">>
Name_lock == <<"~", "A", "_", "s", "w", ".", "x", "l", "s", "x">>

\* The files a directory can hold, each name with what reading it does.
FilePool ==
    <<File(Name_A_sw_xlsx, Gives(SwSingle)), File(Name_A_sw_xlsx, Gives(SwMulti)),
      File(Name_A_sw_xlsx, Gives(SwNoDescription)),
      File(Name_A_sw_xlsx, RaisesAfter(SwSingle)), File(Name_A_sw_xlsx, Raises),
      File(Name_B_sw_csv, Gives(SwBadDepth)), File(Name_B_sw_csv, Gives(SwSingle)),
      File(Name_B_sw_pdf, Raises),
      File(Name_C_sw_txt, Gives(SwSingle)),
      File(Name_A_sl_xlsx, Gives(SlSingle)), File(Name_A_sl_xlsx, Gives(SlMulti)),
      File(Name_A_sl_xlsx, Gives(SlNoUnit)), File(Name_A_sl_xlsx, Raises),
      File(Name_B_sl_csv, Gives(SlSingle)), File(Name_B_sl_csv, RaisesUnicode),
      File(Name_C_sl_xls, Gives(SlSingle)),
      File(Name_notes, Raises),
      File(Name_lock, Gives(SwSingle))>>

ClipboardPool == {Raises, Gives(SlMulti), Gives(SlNoUnit)}

InitGather ==
    /\ pc = "call"
    /\ cfg = set_globals(<<>>)
    /\ printStrs = <<>>
    /\ \E n \in 0..MaxFiles :
         \E pick \in [1..n -> 1..Len(FilePool)] :
            /\ \A i, j \in 1..n :
                  FilePool[pick[i]].name = FilePool[pick[j]].name => i = j
            /\ fn = [i \in 1..n |-> FilePool[pick[i]]]
    /\ clipboard \in ClipboardPool
    /\ halted = FALSE
    /\ swdic = <<>> /\ sldic = <<>> /\ lone_sw_dic = <<>> /\ combined_dic = <<>>
    /\ IdleIsIn /\ IdleConvert /\ IdleCheck /\ IdleDeconstruct /\ IdleUm
    /\ IdleSettings

\* gatherBOMs_from_fnames(filename): swdic and sldic are the dictionaries
\* it returns, unless the call ends with SystemExit.
GatherCall ==
    /\ pc = "call"
    /\ \E out \in {gatherBOMs_from_fnames(fn, clipboard)} :
          /\ swdic' = out.sw
          /\ sldic' = out.sl
          /\ printStrs' = printStrs \o out.msgs
          /\ halted' = out.exit
    /\ pc' = "done"
    /\ UNCHANGED <<cfg, find, xcept, series, filtr, df, dfconv, dfsw, dfsl, dfmerged,
                   lone_sw_dic, combined_dic, top, dic_assys, fn, clipboard,
                   um, um_factors, calls>>

NextGather == GatherCall

SpecGather == InitGather /\ [][NextGather]_vars

EndsWith(s, suffix) ==
    Len(suffix) <= Len(s) /\ SubSeq(s, Len(s) - Len(suffix) + 1, Len(s)) = suffix

\* Where the last underscore of a name is followed by the side and a dot.
SidePos(name, side) ==
    {i \in 1..Len(name) :
        /\ \A j \in (i + 1)..Len(name) : name[j] # "_"
        /\ i + 3 <= Len(name)
        /\ SubSeq(name, i, i + 3) = <<"_">> \o side \o <<".">>}

Side_sw == <<"s", "w">>
Side_sl == <<"s", "l">>

SideOf(name) ==
    IF SidePos(name, Side_sw) # {} THEN "sw"
    ELSE IF SidePos(name, Side_sl) # {} THEN "sl"
    ELSE "none"

\* The name up to its last underscore
Stem(name) ==
    SubSeq(name, 1, (CHOOSE i \in SidePos(name, Side_sw) \cup SidePos(name, Side_sl) : TRUE) - 1)

IsBomName(name) == SideOf(name) # "none" /\ name[1] # "~"

\* File i of filename is read: it is named as a table of a side and no
\* later name of that side has its stem.
Selected(i) ==
    /\ IsBomName(fn[i].name)
    /\ \A j \in (i + 1)..Len(fn) :
          ~(/\ IsBomName(fn[j].name)
            /\ SideOf(fn[j].name) = SideOf(fn[i].name)
            /\ Stem(fn[j].name) = Stem(fn[i].name))

\* The extensions the loop of a side reads
Readable(name) ==
    \/ EndsWith(name, Ext_csv) \/ EndsWith(name, Ext_txt) \/ EndsWith(name, Ext_xlsx)
    \/ SideOf(name) = "sw" /\ EndsWith(name, Ext_xls)

\* None of the accepted names of a required column is in cols.
LacksColumn(side, cols) ==
    IF side = "sw"
    THEN \/ cols \cap {"QTY", "QTY."} = {}
         \/ "DESCRIPTION" \notin cols
         \/ cols \cap {"PART NUMBER", "PARTNUMBER", "Part Number"} = {}
    ELSE \/ cols \cap {"Qty", "Quantity", "Qty Per"} = {}
         \/ cols \cap {"Material Description", "Description"} = {}
         \/ cols \cap {"U/M", "UM"} = {}
         \/ cols \cap {"Item", "Material"} = {}

GivesTable(i) == Selected(i) /\ Readable(fn[i].name) /\ fn[i].read.kind = "table"

\* File i is read and decomposed without a failure.
GoodFile(i) ==
    /\ GivesTable(i)
    /\ ~LacksColumn(SideOf(fn[i].name), fn[i].read.table.cols)
    /\ ~deconstructMultilevelBOM(fn[i].read.table, Stem(fn[i].name)).raised

\* Reading or decomposing file i fails.
FailingFile(i) ==
    /\ Selected(i) /\ Readable(fn[i].name)
    /\ \/ fn[i].read.kind # "table"
       \/ /\ ~LacksColumn(SideOf(fn[i].name), fn[i].read.table.cols)
          /\ deconstructMultilevelBOM(fn[i].read.table, Stem(fn[i].name)).raised

DicOfSide(side) == IF side = "sw" THEN swdic ELSE sldic

\* The tables of the good file j are in the dictionary of its side.
Collected(j) ==
    Keys(deconstructMultilevelBOM(fn[j].read.table, Stem(fn[j].name)).dic)
        \subseteq Keys(DicOfSide(SideOf(fn[j].name)))

NoEntryFrom(name) ==
    /\ \A e \in 1..Len(swdic) : swdic[e].v.src # name
    /\ \A e \in 1..Len(sldic) : sldic[e].v.src # name

\* C14: when a planning csv or txt file that is read raises UnicodeError,
\* the call ends with SystemExit: nothing is returned.
C14_UnicodeAborts ==
    pc = "done" =>
        \A i \in 1..Len(fn) :
            (/\ Selected(i) /\ SideOf(fn[i].name) = "sl"
             /\ EndsWith(fn[i].name, Ext_csv) \/ EndsWith(fn[i].name, Ext_txt)
             /\ fn[i].read.kind = "unicode")
                => halted

\* C15: a table read from a file that lacks a required column adds no
\* entry to either dictionary; a message that names the key and lists
\* missing columns, all of them absent from the table, is appended; and the
\* tables of every good file are collected.
C15_MissingColumnsSkipped ==
    pc = "done" =>
        \A i \in 1..Len(fn) :
            (GivesTable(i) /\ LacksColumn(SideOf(fn[i].name), fn[i].read.table.cols))
                => /\ NoEntryFrom(fn[i].name)
                   /\ \E m \in 1..Len(printStrs) :
                         /\ printStrs[m].kind = "essential columns missing"
                         /\ printStrs[m].names = <<Stem(fn[i].name)>>
                         /\ printStrs[m].missing # <<>>
                         /\ \A r \in 1..Len(printStrs[m].missing) :
                               \A c \in 1..Len(printStrs[m].missing[r]) :
                                  printStrs[m].missing[r][c] \notin fn[i].read.table.cols
                   /\ \A j \in 1..Len(fn) : GoodFile(j) => Collected(j)

\* A design file without DESCRIPTION between two good design files.
C15_Witness ==
    /\ pc = "done"
    /\ Len(fn) = 3
    /\ GoodFile(1) /\ GoodFile(3)
    /\ fn[2] = File(Name_A_sw_xlsx, Gives(SwNoDescription))
    /\ Len(swdic) = 2
    /\ \E m \in 1..Len(printStrs) : printStrs[m].kind = "essential columns missing"

Conforming(name) ==
    \/ EndsWith(name, <<"_", "s", "w", ".", "x", "l", "s", "x">>) \/ EndsWith(name, <<"_", "s", "l", ".", "x", "l", "s", "x">>)
    \/ EndsWith(name, <<"_", "s", "w", ".", "c", "s", "v">>) \/ EndsWith(name, <<"_", "s", "l", ".", "c", "s", "v">>)

\* C17: the files whose names do not end with _sw.xlsx, _sl.xlsx, _sw.csv
\* or _sl.csv are ignored: the dictionaries are those of the call without
\* these files, and no entry holds rows read from one of them.
C17_OtherNamesIgnored ==
    pc = "done" =>
        /\ \E out \in {gatherBOMs_from_fnames(
                          SelectSeq(fn, LAMBDA f : Conforming(f.name)), clipboard)} :
              swdic = out.sw /\ sldic = out.sl
        /\ \A i \in 1..Len(fn) : ~Conforming(fn[i].name) => NoEntryFrom(fn[i].name)

---------------------------------------------------------------------------
(* Specification of create_um_factors on its own                           *)

MaxSer == 2       \* longest series given to create_um_factors

Parsec == <<"p", "a", "r", "s", "e", "c">>
Meter == <<"m", "e", "t", "e", "r">>

\* 12, '1200mm', '5 FT', '3 x' and a cell of another type
LengthPool ==
    {NumCell(12), StrCell(1200, <<"m", "m">>), StrCell(5, <<" ", "F", "T">>),
     StrCell(3, <<" ", "x">>), OtherCell}

\* The names of the units of measure
UnitNames ==
    {<<"i", "n", "c", "h">>, <<"i", "n">>, <<"f", "o", "o", "t">>,
     <<"f", "e", "e", "t">>, <<"f", "t">>, <<"y", "a", "r", "d">>,
     <<"y", "d">>, <<"m", "i", "l", "l", "i", "m", "e", "t", "e", "r">>,
     <<"m", "i", "l", "l", "i">>, <<"m", "m">>,
     <<"c", "e", "n", "t", "i", "m", "e", "t", "e", "r">>,
     <<"c", "e", "n", "t", "i">>, <<"c", "m">>, <<"m", "e", "t", "e", "r">>,
     <<"m">>}

Capitalized(s) == <<UpperChar(s[1])>> \o Tail(s)

\* Every name in lower case, in upper case and capitalized, and a word
\* that names no unit
FromPool ==
    UnitNames \cup {Upper(n) : n \in UnitNames} \cup {Capitalized(n) : n \in UnitNames}
        \cup {Parsec}
ToPool == UnitNames \cup {Upper(<<"c", "m">>), Parsec}

InitUm ==
    /\ pc = "call"
    /\ cfg = set_globals(<<>>)
    /\ printStrs = <<>>
    /\ \E n \in 0..MaxSer :
         \E lengths \in [1..n -> LengthPool] :
            \E f \in FromPool, t \in ToPool :
               um = [ser |-> lengths, from_um |-> f, to_um |-> t]
    /\ um_factors = <<>>
    /\ IdleIsIn /\ IdleConvert /\ IdleCheck /\ IdleCollect /\ IdleDeconstruct
    /\ IdleGather /\ IdleSettings

\* create_um_factors(ser, from_um, to_um)
UmCall ==
    /\ pc = "call"
    /\ um_factors' = create_um_factors(um.ser, um.from_um, um.to_um)
    /\ printStrs' = printStrs \o create_um_messages(um.from_um, um.to_um)
    /\ pc' = "done"
    /\ UNCHANGED <<cfg, find, xcept, series, filtr, df, dfconv, dfsw, dfsl, dfmerged,
                   swdic, sldic, lone_sw_dic, combined_dic, top, dic_assys, fn,
                   halted, clipboard, um, calls>>

NextUm == UmCall

SpecUm == InitUm /\ [][NextUm]_vars

---------------------------------------------------------------------------
(* Claims about create_um_factors                                          *)

\* The units of measure and their length in feet, as exact fractions
Unit_inch == [num |-> 1, den |-> 12]
Unit_foot == [num |-> 1, den |-> 1]
Unit_yard == [num |-> 3, den |-> 1]
Unit_mm == [num |-> 5, den |-> 1524]
Unit_cm == [num |-> 25, den |-> 762]
Unit_m == [num |-> 1250, den |-> 381]

\* The tokens of the factor table that occur in a text, letter case aside
TokensIn(text) ==
    {i \in 1..Len(factorpool) :
        \E at \in 1..Len(text) :
           /\ at + Len(factorpool[i].k) - 1 <= Len(text)
           /\ Lower(SubSeq(text, at, at + Len(factorpool[i].k) - 1)) = factorpool[i].k}

NamesUnit(text) == TokensIn(text) # {}

\* The unit a text names: that of the longest token in it
UnitNamed(text) ==
    LET longest == CHOOSE i \in TokensIn(text) :
                      \A j \in TokensIn(text) : Len(factorpool[j].k) <= Len(factorpool[i].k)
        word == factorpool[longest].k
    IN  CASE word \in {<<"i", "n">>} -> Unit_inch
          [] word \in {<<"f", "t">>, <<"f", "e", "e", "t">>, <<"f", "o", "o", "t">>}
                -> Unit_foot
          [] word \in {<<"y", "a", "r", "d">>, <<"y", "d">>} -> Unit_yard
          [] word \in {<<"m", "m">>, <<"m", "i", "l", "l", "i">>} -> Unit_mm
          [] word \in {<<"c", "m">>, <<"c", "e", "n", "t", "i">>} -> Unit_cm
          [] word \in {<<"m">>} -> Unit_m

Times(x, y) == Frac(x.num * y.num, x.den * y.den)
Per(x) == [num |-> x.den, den |-> x.num]

IsNumber(c) == ~c.isstr /\ c.txt = <<>>
OwnUnit(c) == c.isstr /\ NamesUnit(c.txt)
PlainLength(c) == IsNumber(c) \/ (c.isstr /\ ~NamesUnit(c.txt))

UmDone == pc = "done" /\ um # NoUm

\* C18: a text length that carries a unit token gets that unit's factor in
\* place of from_um, every other text or number of the same series gets the
\* factor of from_um, and '1200mm' converted from 'inch' to 'feet' gets
\* 1/(25.4*12).
C18_TokenOverridesOneRow ==
    (UmDone /\ NamesUnit(um.from_um) /\ NamesUnit(um.to_um)) =>
        /\ Len(um_factors) = Len(um.ser)
        /\ \A i \in 1..Len(um.ser) :
              /\ OwnUnit(um.ser[i]) =>
                    um_factors[i] = Times(UnitNamed(um.ser[i].txt), Per(UnitNamed(um.to_um)))
              /\ PlainLength(um.ser[i]) =>
                    um_factors[i] = Times(UnitNamed(um.from_um), Per(UnitNamed(um.to_um)))
              /\ (/\ um.ser[i] = StrCell(1200, <<"m", "m">>)
                  /\ um.from_um = Inch
                  /\ um.to_um = Feet) => um_factors[i] = Frac(10, 254 * 12)

\* '1200mm' followed by the number 12, from 'inch' to 'feet'
C18_Witness ==
    /\ UmDone
    /\ um.ser = <<StrCell(1200, <<"m", "m">>), NumCell(12)>>
    /\ um.from_um = Inch
    /\ um.to_um = Feet
    /\ um_factors = <<Unit_mm, Unit_inch>>

\* C19: create_um_factors returns a factor for every length whatever the
\* unit strings are; a from_um without a token of the factor table counts
\* as 1/12 and a to_um without a token counts as 1.0.
C19_DefaultFactors ==
    UmDone =>
        /\ Len(um_factors) = Len(um.ser)
        /\ \A i \in 1..Len(um.ser) :
              LET from == IF OwnUnit(um.ser[i]) THEN UnitNamed(um.ser[i].txt)
                          ELSE IF NamesUnit(um.from_um) THEN UnitNamed(um.from_um)
                          ELSE Unit_inch
                  to == IF NamesUnit(um.to_um) THEN UnitNamed(um.to_um) ELSE Unit_foot
              IN  (/\ OwnUnit(um.ser[i]) \/ PlainLength(um.ser[i])
                   /\ ~NamesUnit(um.from_um) \/ ~NamesUnit(um.to_um)) =>
                      um_factors[i] = Times(from, Per(to))

\* The number 12 from 'parsec' to 'parsec'
C19_Witness ==
    /\ UmDone
    /\ um.ser = <<NumCell(12)>>
    /\ um.from_um = Parsec
    /\ um.to_um = Parsec
    /\ um_factors = <<Unit_inch>>

\* C20: when from_um or to_um names no unit of measure, a diagnostic is
\* appended to printStrs besides the default factor being used.
C20_DiagnosticAppended ==
    (UmDone /\ (~NamesUnit(um.from_um) \/ ~NamesUnit(um.to_um))) =>
        printStrs # <<>>

\* The unit a name of UnitNames stands for, letter case aside
UnitOfName(name) ==
    LET n == Lower(name)
    IN  CASE n \in {<<"i", "n", "c", "h">>, <<"i", "n">>} -> Unit_inch
          [] n \in {<<"f", "o", "o", "t">>, <<"f", "e", "e", "t">>, <<"f", "t">>} -> Unit_foot
          [] n \in {<<"y", "a", "r", "d">>, <<"y", "d">>} -> Unit_yard
          [] n \in {<<"m", "i", "l", "l", "i", "m", "e", "t", "e", "r">>,
                    <<"m", "i", "l", "l", "i">>, <<"m", "m">>} -> Unit_mm
          [] n \in {<<"c", "e", "n", "t", "i", "m", "e", "t", "e", "r">>,
                    <<"c", "e", "n", "t", "i">>, <<"c", "m">>} -> Unit_cm
          [] n \in {<<"m", "e", "t", "e", "r">>, <<"m">>} -> Unit_m

IsUnitName(name) == Lower(name) \in UnitNames

\* C25: for every unit name of the list, in any letter case, the factor
\* selected is that of the unit itself, inch 1/12, foot 1, yard 3,
\* millimeter 1/(25.4*12), centimeter 10/(25.4*12), meter 1000/(25.4*12),
\* as from_um and, inverted, as to_um.
C25_NamesSelectOwnFactor ==
    (UmDone /\ IsUnitName(um.from_um) /\ IsUnitName(um.to_um)) =>
        \A i \in 1..Len(um.ser) :
           IsNumber(um.ser[i]) =>
              um_factors[i] = Times(UnitOfName(um.from_um), Per(UnitOfName(um.to_um)))

\* The number 12 from 'METER' to 'centimeter': the factor is 100
C25_Witness ==
    /\ UmDone
    /\ um.ser = <<NumCell(12)>>
    /\ um.from_um = <<"M", "E", "T", "E", "R">>
    /\ um.to_um = <<"c", "e", "n", "t", "i", "m", "e", "t", "e", "r">>
    /\ um_factors = <<[num |-> 100, den |-> 1]>>

---------------------------------------------------------------------------
(* Claims about the length folded into the quantity                        *)

\* An item id the length of which is not to be used
ClaimExempt(item) == FullyMatches(DiscardLengthDefault, Stripped(item))

\* The factor the claim gives a row: from the unit its length names, or
\* else from cfg['from_um'], to cfg['to_um']
ClaimFactor(row) ==
    LET from == IF row.LENGTH.isstr /\ NamesUnit(row.LENGTH.txt)
                THEN UnitNamed(row.LENGTH.txt)
                ELSE IF NamesUnit(cfg.from_um) THEN UnitNamed(cfg.from_um)
                ELSE Unit_inch
        to == IF NamesUnit(cfg.to_um) THEN UnitNamed(cfg.to_um) ELSE Unit_foot
    IN  Times(from, Per(to))

\* length x quantity x factor in hundred-thousandths, 0 for an exempt id
ClaimLength(row) ==
    IF ClaimExempt(row.Item) THEN 0
    ELSE (row.LENGTH.num * row.Q * ClaimFactor(row).num) \div ClaimFactor(row).den

\* Row i of df is the only row of its item, and the item is in the result
SoleRow(i) ==
    /\ \A j \in 1..Len(df.rows) : j # i => df.rows[j].Item # df.rows[i].Item
    /\ df.rows[i].Item \in ItemSet(dfconv[1].rows)

ResultRow(i) ==
    dfconv[1].rows[CHOOSE k \in 1..Len(dfconv[1].rows) :
                      dfconv[1].rows[k].Item = df.rows[i].Item]

HasLength == "LENGTH" \in df.cols /\ Len(dfconv) >= 1

\* C26 as stated: a row whose converted length exceeds 0.00001 gets the
\* converted length as quantity and the unit 'FT'; every other row keeps
\* its quantity and gets the unit 'EA' (quantities as rounded by the
\* function).
C26_FoldAbove ==
    HasLength =>
        \A i \in 1..Len(df.rows) :
           SoleRow(i) =>
              IF ClaimLength(df.rows[i]) > LengthEps
              THEN /\ ResultRow(i).Q = Round(ClaimLength(df.rows[i]), cfg.accuracy)
                   /\ ResultRow(i).U = FT
              ELSE /\ ResultRow(i).Q = Round(df.rows[i].Q, cfg.accuracy)
                   /\ ResultRow(i).U = EA

\* C26: a row whose converted length is 0.00001 or more gets the converted
\* length as quantity and the unit 'FT'; every other row, every exempt
\* item among them, keeps its quantity and gets the unit 'EA' (quantities
\* as rounded by the function).
C26_FoldAtLeast ==
    HasLength =>
        \A i \in 1..Len(df.rows) :
           SoleRow(i) =>
              IF ClaimLength(df.rows[i]) >= LengthEps
              THEN /\ ResultRow(i).Q = Round(ClaimLength(df.rows[i]), cfg.accuracy)
                   /\ ResultRow(i).U = FT
              ELSE /\ ResultRow(i).Q = Round(df.rows[i].Q, cfg.accuracy)
                   /\ ResultRow(i).U = EA

\* Quantity 0.00001 of a part 12 inches long, to feet, beside an exempt
\* item with a length
C26_Witness ==
    /\ HasLength
    /\ cfg.from_um = Inch /\ cfg.to_um = Feet
    /\ df.rows = <<SwRow(Item_tiny, 1, Desc_c, NumCell(12)),
                   SwRow(NamedId, 100000, Desc_a, NumCell(12))>>
    /\ SoleRow(1) /\ SoleRow(2)
    /\ ClaimLength(df.rows[1]) = LengthEps
    /\ ResultRow(1).U = FT
    /\ ResultRow(2).U = EA /\ ResultRow(2).Q = 100000

\* C29: the unit of a row is 'FT' or 'EA' whatever cfg['to_um'] is, and a
\* row whose length was folded into the quantity has the unit 'FT' and the
\* length expressed in cfg['to_um'] as quantity.
C29_UnitIsFT ==
    HasLength =>
        /\ \A k \in 1..Len(dfconv[1].rows) : dfconv[1].rows[k].U \in {FT, EA}
        /\ \A i \in 1..Len(df.rows) :
              (SoleRow(i) /\ ClaimLength(df.rows[i]) >= LengthEps) =>
                 /\ ResultRow(i).U = FT
                 /\ ResultRow(i).Q =
                       Round((df.rows[i].LENGTH.num * df.rows[i].Q
                                 * ClaimFactor(df.rows[i]).num)
                                \div ClaimFactor(df.rows[i]).den, cfg.accuracy)

\* One part 10 inches long, converted to 'mm': quantity 254 with unit 'FT'
C29_Witness ==
    /\ HasLength
    /\ cfg.from_um = Inch /\ cfg.to_um = Millimeter
    /\ df.rows = <<SwRow(Item_plain, 100000, Desc_a, NumCell(10))>>
    /\ dfconv[1].rows[1].Q = 25400000
    /\ dfconv[1].rows[1].U = FT

---------------------------------------------------------------------------
(* Specification of the settings over the calls of bomcheck in one process *)

MaxCalls == 3     \* most calls of bomcheck in one process

\* cfg is as set_globals made it when the module was loaded (line 1343).
InitSettings ==
    /\ pc = "call"
    /\ \E exc \in ExcPool : cfg = set_globals(exc)
    /\ printStrs = <<>>
    /\ calls = <<>>
    /\ IdleIsIn /\ IdleConvert /\ IdleCheck /\ IdleCollect /\ IdleDeconstruct
    /\ IdleGather /\ IdleUm

\* One call of bomcheck, as far as cfg goes: lines 291-298 are the only
\* ones that assign to it.
SettingsCall ==
    /\ pc = "call"
    /\ Len(calls) < MaxCalls
    /\ \E call \in CallPool :
          /\ cfg' = bomcheck_settings(cfg, call.dic, call.kwargs)
          /\ calls' = Append(calls, call)
    /\ UNCHANGED <<pc, printStrs, find, xcept, series, filtr, df, dfconv, dfsw, dfsl,
                   dfmerged, swdic, sldic, lone_sw_dic, combined_dic, top,
                   dic_assys, fn, halted, clipboard, um, um_factors>>

NextSettings == SettingsCall

SpecSettings == InitSettings /\ [][NextSettings]_vars

\* What a call passes for from_um, to_um and accuracy: the entry of dic
\* when it is there and not empty or 0, else the keyword argument
PassesFrom(c) == (c.dic.from_um.has /\ c.dic.from_um.v # <<>>) \/ c.kwargs.from_um.has
PassesTo(c) == (c.dic.to_um.has /\ c.dic.to_um.v # <<>>) \/ c.kwargs.to_um.has
PassesAccuracy(c) == (c.dic.accuracy.has /\ c.dic.accuracy.v # 0) \/ c.kwargs.a.has

FromPassed(c) ==
    IF c.dic.from_um.has /\ c.dic.from_um.v # <<>> THEN c.dic.from_um.v
    ELSE c.kwargs.from_um.v
ToPassed(c) ==
    IF c.dic.to_um.has /\ c.dic.to_um.v # <<>> THEN c.dic.to_um.v ELSE c.kwargs.to_um.v
AccuracyPassed(c) ==
    IF c.dic.accuracy.has /\ c.dic.accuracy.v # 0 THEN c.dic.accuracy.v
    ELSE c.kwargs.a.v

\* The drop flag of a call, False when it gives none
DropFlag(c) ==
    (c.dic.drop.has /\ c.dic.drop.v) \/ (c.kwargs.d.has /\ c.kwargs.d.v)

\* The last of the calls so far for which P holds, 0 when there is none
LastCall(P(_)) ==
    IF \E i \in 1..Len(calls) : P(calls[i])
    THEN CHOOSE i \in 1..Len(calls) :
            P(calls[i]) /\ \A j \in (i + 1)..Len(calls) : ~P(calls[j])
    ELSE 0

\* C30: after any number of calls, from_um, to_um and accuracy are what
\* the last call that passed them gave, or what set_globals made when no
\* call passed them, whereas drop is the flag of the last call alone,
\* False when that call gave none: the list of drop patterns is there
\* before the first call only.
C30_SettingsPersistButDrop ==
    /\ cfg.from_um = IF LastCall(PassesFrom) = 0 THEN Inch
                     ELSE FromPassed(calls[LastCall(PassesFrom)])
    /\ cfg.to_um = IF LastCall(PassesTo) = 0 THEN Feet
                   ELSE ToPassed(calls[LastCall(PassesTo)])
    /\ cfg.accuracy = IF LastCall(PassesAccuracy) = 0 THEN AccuracyDefault
                      ELSE AccuracyPassed(calls[LastCall(PassesAccuracy)])
    /\ cfg.drop = IF calls = <<>> THEN PyList(<<DropDefault>>)
                  ELSE PyBool(DropFlag(calls[Len(calls)]))

\* A call with d=True, from_um='mm', to_um='mm' and a=0, then two calls
\* that pass nothing
C30_Witness ==
    /\ Len(calls) = 3
    /\ calls[1] = [dic |-> NoDic,
                   kwargs |-> [d |-> Given(TRUE), from_um |-> Given(Millimeter),
                               to_um |-> Given(Millimeter), a |-> Given(0)]]
    /\ calls[2] = [dic |-> NoDic, kwargs |-> NoKwargs]
    /\ calls[3] = [dic |-> NoDic, kwargs |-> NoKwargs]
    /\ cfg.from_um = Millimeter /\ cfg.to_um = Millimeter /\ cfg.accuracy = 0
    /\ cfg.drop = PyBool(FALSE)

===========================================================================
